---- MODULE Spec2Model ----
(***************************************************************************)
(* A model of the stream synchronisation core of CameraRealSense2          *)
(* (corelib/src/camera/CameraRealSense2.cpp): the gyro, accel and pose     *)
(* ingest callbacks, the interpolation getPoseAndIMU and the consumer      *)
(* captureImage.                                                           *)
(*                                                                         *)
(* Conventions.                                                            *)
(*  - Device timestamps are milliseconds, modelled as positive integers.   *)
(*  - A time in seconds, and every interpolated scalar, is an exact        *)
(*    rational <<num, den>> in lowest terms with den > 0.  The source      *)
(*    computes in IEEE doubles (and a float ratio); rounding is not        *)
(*    modelled, the arithmetic is.                                         *)
(*  - A std::map is a function from its finite set of keys; an iterator is *)
(*    a position 1..size in key order, size+1 being end().                 *)
(*  - UMutex is recursive: it has an owner and a hold count.               *)
(***************************************************************************)
EXTENDS Integers, Sequences, FiniteSets, TLC

(* ------------------------------ bounds -------------------------------- *)

\* Device timestamps of the pose/IMU samples and of the frames: 1..MaxTime.
MaxTime == 3

\* Capacity of each timeline.  The source keeps 1000 samples
\* (CameraRealSense2.cpp:158,166,196); the model keeps Capacity of them.
Capacity == 2

\* Number of ingest callbacks delivered in one behaviour.
MaxIngest == 4

\* Number of captureImage calls in one behaviour.
MaxCaptures == 2

\* Number of ingest callbacks delivered while captures are under way.
MaxSessionIngest == 1

\* Number of init() calls while captures are under way.
MaxSessionInits == 1

\* Largest wait budget (maxWaitTimeMs) handed to getPoseAndIMU.
MaxWaitMs == 1

\* A warning counter stops counting at WarnCap.
WarnCap == 2

\* Number of init() calls (sessions) in one behaviour.
MaxInits == 2

Times == 1..MaxTime

(* ----------------------------- rationals ------------------------------ *)

Abs(x) == IF x < 0 THEN -x ELSE x

RECURSIVE GCD(_, _)
GCD(a, b) == IF b = 0 THEN a ELSE GCD(b, a % b)

\* n/d in lowest terms, d # 0.  The operands are bound to their values first,
\* so that each is evaluated once.
Rat(n, d) ==
    CHOOSE r \in {LET s == IF y < 0 THEN -1 ELSE 1
                      g == GCD(Abs(x), Abs(y))
                  IN  <<(s * x) \div g, (s * y) \div g>> : x \in {n}, y \in {d}} : TRUE

RatInt(k) == <<k, 1>>
RatAdd(a, b) == Rat(a[1] * b[2] + b[1] * a[2], a[2] * b[2])
RatSub(a, b) == Rat(a[1] * b[2] - b[1] * a[2], a[2] * b[2])
RatMul(a, b) == Rat(a[1] * b[1], a[2] * b[2])
RatLess(a, b) == a[1] * b[2] < b[1] * a[2]

(* ------------------------------ std::map ------------------------------ *)

EmptyMap == << >>

Min(S) == CHOOSE x \in S : \A y \in S : x <= y
Max(S) == CHOOSE x \in S : \A y \in S : x >= y

\* size(), empty()
MapSize(m) == Cardinality(DOMAIN m)
MapEmpty(m) == DOMAIN m = {}

\* The keys in iteration order.
RECURSIVE SortedKeys(_)
SortedKeys(S) == IF S = {} THEN << >> ELSE <<Min(S)>> \o SortedKeys(S \ {Min(S)})

Keys(m) == SortedKeys(DOMAIN m)

\* map::insert(hint, pair): a key already present keeps its value, and the
\* hint (end()) only speeds the insertion up: the map stays ordered by key.
MapInsert(m, k, v) ==
    IF k \in DOMAIN m THEN m
    ELSE [x \in DOMAIN m \cup {k} |-> IF x = k THEN v ELSE m[x]]

\* A variant of the erasure below that erases the newest entry
MapEraseNewest(m) == [x \in DOMAIN m \ {Max(DOMAIN m)} |-> m[x]]

\* map::erase(begin())
MapEraseBegin(m) == [x \in DOMAIN m \ {Min(DOMAIN m)} |-> m[x]]

\* begin(), end(), rbegin() as positions
MapBegin(m) == 1
MapEnd(m) == MapSize(m) + 1

\* A variant of rbegin() below that answers with the first position
FirstPosition(m) == 1

MapRBegin(m) == MapSize(m)

\* lower_bound(k): the first position whose key is >= k, else end()
LowerBound(m, k) ==
    LET ks == Keys(m)
        P  == {i \in 1..Len(ks) : ks[i] >= k}
    IN  IF P = {} THEN MapEnd(m) ELSE Min(P)

\* upper_bound(k): the first position whose key is > k, else end()
UpperBound(m, k) ==
    LET ks == Keys(m)
        P  == {i \in 1..Len(ks) : ks[i] > k}
    IN  IF P = {} THEN MapEnd(m) ELSE Min(P)

\* it->first, it->second
KeyAt(m, i) == Keys(m)[i]
ValAt(m, i) == m[Keys(m)[i]]

(* ------------------------------- values ------------------------------- *)

\* cv::Vec3f readings delivered by the gyro and accel streams.
Vec3Values == {<<0, 0, 1>>, <<0, 0, 3>>}

\* Pose samples: <<transform, tracker confidence>>; the transform is modelled
\* by one scalar coordinate.
PoseValues == {<<0, 1>>, <<4, 3>>}

\* cv::Vec3d of three rationals
VecOfInts(v) == <<RatInt(v[1]), RatInt(v[2]), RatInt(v[3])>>
ZeroVec == VecOfInts(<<0, 0, 0>>)

\* Transform() after setNull(), and a transform with coordinate x
NullPose == [null |-> TRUE, x |-> RatInt(0)]
PoseOf(x) == [null |-> FALSE, x |-> x]

\* IMU(): the empty reading; IMU(gyro, ..., acc, ...)
EmptyIMU == [empty |-> TRUE, gyro |-> ZeroVec, acc |-> ZeroVec]
MakeIMU(g, a) == [empty |-> FALSE, gyro |-> g, acc |-> a]

\* SensorData(): no images, no IMU
EmptyData == [images |-> FALSE, stamp |-> RatInt(0), imu |-> EmptyIMU]

(* ------------------------------- UMutex ------------------------------- *)

\* UMutex is a recursive mutex: the owner may lock it again.
FreeMutex == [owner |-> "none", count |-> 0]
CanLock(m, who) == m.count = 0 \/ m.owner = who
Lock(m, who) == [owner |-> who, count |-> m.count + 1]
Unlock(m) ==
    IF m.count <= 1 THEN FreeMutex ELSE [m EXCEPT !.count = @ - 1]

(* --------------------- interpolation (getPoseAndIMU) ------------------- *)

\* A variant of iterA below that is never stepped back
IterAStay(m, stamp) == LowerBound(m, stamp)

\* iterA: lower_bound(stamp), stepped back once unless it is begin()
IterA(m, stamp) ==
    LET b == LowerBound(m, stamp)
    IN  IF b # MapBegin(m) THEN b - 1 ELSE b

\* iterB: lower_bound(stamp), stepped back once if it is end()
IterB(m, stamp) ==
    LET b == LowerBound(m, stamp)
    IN  IF b = MapEnd(m) THEN b - 1 ELSE b

\* A variant of the test below that never finds the target stored
ExactMatchNever(a, b, stamp, ta) == FALSE

\* if(iterA == iterB && stamp == iterA->first)
ExactMatch(a, b, stamp, ta) == a = b /\ stamp = ta

\* else if(stamp >= iterA->first && stamp <= iterB->first): the branch that
\* interpolates between the samples at iterA and iterB
TakesLerp(buf, stamp) ==
    /\ ~(KeyAt(buf, MapRBegin(buf)) < stamp)
    /\ ~ExactMatch(IterA(buf, stamp), IterB(buf, stamp), stamp,
                   KeyAt(buf, IterA(buf, stamp)))
    /\ stamp >= KeyAt(buf, IterA(buf, stamp))
    /\ stamp <= KeyAt(buf, IterB(buf, stamp))

\* (stamp-iterA->first) / (iterB->first-iterA->first)
Ratio(stamp, ta, tb) == Rat(stamp - ta, tb - ta)

\* a + t*(b - a) of one component
Lerp(a, t, b) == RatAdd(RatInt(a), RatMul(t, RatInt(b - a)))

\* The three components of an inertial reading, interpolated one by one
LerpVec(va, t, vb) ==
    <<Lerp(va[1], t, vb[1]), Lerp(va[2], t, vb[2]), Lerp(va[3], t, vb[3])>>

\* Transform::interpolate(t, other), on the modelled coordinate
TransformInterpolate(xa, t, xb) == Lerp(xa, t, xb)

\* A variant of the pose block below that answers a target outside the
\* stored timestamps with the latest stored pose
PoseResultLatest(buf, stamp, maxWaitTimeMs) ==
    [pose |-> PoseOf(RatInt(ValAt(buf, MapRBegin(buf))[1])),
     conf |-> ValAt(buf, MapRBegin(buf))[2], warn |-> "none"]

\* The pose block once the wait loop is over: the pose, its confidence and
\* the warning it prints ("none" when it prints none).
PoseResult(buf, stamp, maxWaitTimeMs) ==
    IF KeyAt(buf, MapRBegin(buf)) < stamp
    THEN [pose |-> NullPose, conf |-> 0,
          warn |-> IF maxWaitTimeMs > 0 THEN "poseLag" ELSE "none"]
    ELSE LET a  == IterA(buf, stamp)
             b  == IterB(buf, stamp)
             ta == KeyAt(buf, a)
             tb == KeyAt(buf, b)
         IN  IF ExactMatch(a, b, stamp, ta)
             THEN [pose |-> PoseOf(RatInt(ValAt(buf, a)[1])),
                   conf |-> ValAt(buf, a)[2], warn |-> "none"]
             ELSE IF stamp >= ta /\ stamp <= tb
             THEN [pose |-> PoseOf(TransformInterpolate(ValAt(buf, a)[1],
                                       Ratio(stamp, ta, tb), ValAt(buf, b)[1])),
                   conf |-> ValAt(buf, a)[2], warn |-> "none"]
             ELSE [pose |-> NullPose, conf |-> 0, warn |-> "poseDesync"]

\* The acc block, and the gyro block which repeats it, once the wait loop is
\* over: whether a value was obtained, the value, the warnings printed (lag:
\* "after waiting", desync: "Are sensors synchronized?", restamp: "will be
\* re-stamped") and the latch imuGlobalSyncWarningShown_ afterwards.
VecResult(buf, stamp, maxWaitTimeMs, sync, shown) ==
    IF KeyAt(buf, MapRBegin(buf)) < stamp
    THEN [ok |-> FALSE, val |-> ZeroVec,
          warns |-> IF maxWaitTimeMs > 0 THEN {"lag"} ELSE {},
          shown |-> shown]
    ELSE LET a  == IterA(buf, stamp)
             b  == IterB(buf, stamp)
             ta == KeyAt(buf, a)
             tb == KeyAt(buf, b)
         IN  IF ExactMatch(a, b, stamp, ta)
             THEN [ok |-> TRUE, val |-> VecOfInts(ValAt(buf, a)),
                   warns |-> {}, shown |-> shown]
             ELSE IF stamp >= ta /\ stamp <= tb
             THEN [ok |-> TRUE,
                   val |-> LerpVec(ValAt(buf, a), Ratio(stamp, ta, tb), ValAt(buf, b)),
                   warns |-> {}, shown |-> shown]
             ELSE IF ~sync
             THEN [ok |-> TRUE, val |-> VecOfInts(ValAt(buf, MapRBegin(buf))),
                   warns |-> IF shown THEN {} ELSE {"desync", "restamp"},
                   shown |-> TRUE]
             ELSE [ok |-> FALSE, val |-> ZeroVec,
                   warns |-> IF shown THEN {} ELSE {"desync"},
                   shown |-> shown]

(* ------------------------- frames (captureImage) ----------------------- *)

\* stamp - now > ClockTolerance seconds is a clock anomaly.  The source's
\* tolerance is 1000000000.0 (CameraRealSense2.cpp:1269); the model scales it.
ClockTolerance == 1

\* Frame timestamps: those of the samples, the largest one that host time
\* MaxTime/1000 still accepts, and one beyond every accepted one.
BorderMs == 1000 * ClockTolerance + MaxTime
FutureMs == 1000 * ClockTolerance + MaxTime + 1
FrameTimes == Times \cup {BorderMs, FutureMs}

\* The timeout of the first wait, wait_for_frames(5000), in waits of 100 ms:
\* 50 of them in the source (CameraRealSense2.cpp:1189); the model scales it.
FirstWaitTicks == 4

\* How long the first wait may last: no time at all, or nearly its timeout
FirstWaits == {0, FirstWaitTicks}

\* UTimer::now(), in seconds
HostTimes == {Rat(k, 1000) : k \in {1, MaxTime}}

\* stamp /= 1000.0 and stamp*1000.0
ToSeconds(ms) == Rat(ms, 1000)
ToMillis(sec) == (sec[1] * 1000) \div sec[2]

Frame(type, ts) == [type |-> type, ts |-> ts]

\* The frame sets the syncer hands out: pairs for each device layout, a lone
\* frame, and triples (an L500 with its confidence stream).
FrameSets ==
    UNION {
      { <<Frame("COLOR", t1), Frame("DEPTH", t2)>>,
        <<Frame("DEPTH", t1), Frame("COLOR", t2)>>,
        <<Frame("INFRARED", t1), Frame("INFRARED", t2)>>,
        <<Frame("INFRARED", t1), Frame("DEPTH", t2)>>,
        <<Frame("FISHEYE", t1), Frame("FISHEYE", t2)>>,
        <<Frame("DEPTH", t1), Frame("CONFIDENCE", t2)>>,
        <<Frame("COLOR", t1)>>,
        <<Frame("COLOR", t1), Frame("DEPTH", t2), Frame("CONFIDENCE", t2)>>,
        <<Frame("CONFIDENCE", t1), Frame("DEPTH", t2), Frame("INFRARED", t1)>> }
      : t1 \in FrameTimes, t2 \in FrameTimes }

\* frameset.get_timestamp(): a composite frame answers with its first frame
FramesetTimestamp(fs) == fs[1].ts

\* A variant of the desired size below that ignores the device kind
DesiredAlwaysTwo(l500, sync) == 2

\* int desiredFramesetSize
DesiredFramesetSize(l500, sync) == IF l500 /\ sync THEN 3 ELSE 2

\* A variant of the turn below that leaves the stamp alone
ClassifyFrameKeepStamp(st, f, l500, stereoIR) ==
    IF f.type = "FISHEYE"
    THEN [st EXCEPT !.left = st.right, !.right = TRUE]
    ELSE [st EXCEPT !.rgb = TRUE, !.depth = TRUE]

\* One turn of the loop over the frame set
ClassifyFrame(st, f, l500, stereoIR) ==
    LET st1 == IF st.stamp > f.ts THEN [st EXCEPT !.stamp = f.ts] ELSE st
    IN  IF f.type \in {"COLOR", "INFRARED"}
        THEN IF l500
             THEN IF f.type = "COLOR" THEN [st1 EXCEPT !.rgb = TRUE] ELSE st1
             ELSE IF stereoIR
             THEN IF ~st1.depth THEN [st1 EXCEPT !.depth = TRUE]
                  ELSE [st1 EXCEPT !.rgb = TRUE]
             ELSE [st1 EXCEPT !.rgb = TRUE]
        ELSE IF f.type = "DEPTH" THEN [st1 EXCEPT !.depth = TRUE]
        ELSE IF f.type = "FISHEYE"
        THEN IF ~st1.right THEN [st1 EXCEPT !.right = TRUE]
             ELSE [st1 EXCEPT !.left = TRUE]
        ELSE st1

RECURSIVE ClassifyFrom(_, _, _, _, _)
ClassifyFrom(st, fs, i, l500, stereoIR) ==
    IF i > Len(fs) THEN st
    ELSE ClassifyFrom(ClassifyFrame(st, fs[i], l500, stereoIR), fs, i + 1, l500, stereoIR)

\* The loop over the frame set: the smallest timestamp and the arrival flags
ClassifyFrameset(fs, l500, stereoIR) ==
    ClassifyFrom([stamp |-> FramesetTimestamp(fs), rgb |-> FALSE, depth |-> FALSE,
                  left |-> FALSE, right |-> FALSE], fs, 1, l500, stereoIR)

\* A variant of the test below that never trips
ClockAnomalyNever(stamp, now) == FALSE

\* if(stamp - now > tolerance)
ClockAnomaly(stamp, now) == RatLess(RatInt(ClockTolerance), RatSub(stamp, now))

\* A frame set of the desired size, up to the call of getPoseAndIMU: the
\* record's stamp in seconds, whether the record got its two images, and
\* whether the clock check tripped.
ProcessFrameset(fs, now, l500, stereoIR) ==
    LET st      == ClassifyFrameset(fs, l500, stereoIR)
        seconds == ToSeconds(st.stamp)
        anomaly == ClockAnomaly(seconds, now)
    IN  [stamp   |-> IF anomaly THEN now ELSE seconds,
         images  |-> (st.rgb /\ st.depth) \/ (st.left /\ st.right),
         anomaly |-> anomaly]

(* -------------------------------- state -------------------------------- *)

VARIABLES
    gyroBuffer, accBuffer, poseBuffer,   \* the three timelines
    imuMutex, poseMutex,                 \* their locks (gyro and accel share one)
    lastImuStamp,                        \* lastImuStamp_
    clockSyncWarningShown,               \* clockSyncWarningShown_
    imuGlobalSyncWarningShown,           \* imuGlobalSyncWarningShown_
    odometryProvided, globalTimeSync, publishInterIMU, dualMode,
    isL500, ir, irDepth,                 \* the options and the device kind
    phase,                               \* "config" until init(), then "running"
    cbPc,                                \* where each ingest callback stands
    pc,                                  \* where the consumer stands
    ci,                                  \* locals of captureImage
    gp,                                  \* arguments and locals of getPoseAndIMU
    data,                                \* the record captureImage returned last
    odom,                                \* info->odomPose and the confidence used
    events,                              \* timestamps of the posted IMUEvents
    warnCount,                           \* warnings printed in this session, by kind
    hist,                                \* per stream: the samples delivered so far
    forwarded,                           \* the stream types handed to the syncer
    seen,                                \* what the syncer returned last
    env,                                 \* the inputs the environment draws from
    ingestLeft, capturesLeft, initsLeft  \* callbacks, captures, init()s still to come

cfgVars == <<odometryProvided, globalTimeSync, publishInterIMU, dualMode, isL500, ir, irDepth>>
bufVars == <<gyroBuffer, accBuffer, poseBuffer>>
lockVars == <<imuMutex, poseMutex>>
latchVars == <<clockSyncWarningShown, imuGlobalSyncWarningShown>>
outVars == <<data, odom, events>>
countVars == <<ingestLeft, capturesLeft, initsLeft>>
ghostVars == <<hist, seen, forwarded>>
phaseVars == <<phase, env>>

vars == <<gyroBuffer, accBuffer, poseBuffer, imuMutex, poseMutex, lastImuStamp,
          clockSyncWarningShown, imuGlobalSyncWarningShown,
          odometryProvided, globalTimeSync, publishInterIMU, dualMode,
          isL500, ir, irDepth, phase, cbPc, pc, ci, gp, data, odom, events,
          warnCount, hist, seen, forwarded, env, ingestLeft, capturesLeft, initsLeft>>

Streams == {"gyro", "acc", "pose"}

WarnKinds == {"clock", "poseLag", "poseDesync", "accLag", "accDesync",
              "gyroLag", "gyroDesync", "restamp"}

NoWarnings == [k \in WarnKinds |-> 0]

\* UWARN of each kind in ks, counted up to WarnCap
Warn(w, ks) ==
    [k \in WarnKinds |-> IF k \in ks /\ w[k] < WarnCap THEN w[k] + 1 ELSE w[k]]

\* Locals of captureImage before the call and after it returned
IdleCi == [imuStamp |-> 0, info |-> FALSE, elapsed |-> 0, waited |-> 0,
           fsSize |-> 0, iterA |-> 0, iterB |-> 0]

\* Locals of getPoseAndIMU outside a call
IdleGp == [stamp |-> 0, maxWaitTimeMs |-> 0, waitTry |-> 0, pose |-> NullPose,
           poseConfidence |-> 0, acc |-> ZeroVec, gyro |-> ZeroVec,
           imu |-> EmptyIMU, failed |-> FALSE, caller |-> "none"]

NoOdom == [set |-> FALSE, pose |-> NullPose, confidence |-> 0]

NoHistory == [mono |-> TRUE, seq |-> << >>]
UnknownHistory == [mono |-> FALSE, seq |-> << >>]

\* What the syncer returned: the size of the frame set, the timestamp of its
\* first frame, the smallest of its frames' timestamps, whether that one is
\* beyond host time by more than the tolerance, the host time read in that
\* case, and the stream types of the frames.  Nothing when the wait threw.
NoneSeen == [size |-> 0, first |-> 0, minTs |-> 0, late |-> FALSE,
             host |-> RatInt(0), kinds |-> {}]
Observed(fs, now) ==
    LET least == Min({fs[i].ts : i \in 1..Len(fs)})
        late  == least * now[2] - 1000 * now[1] > 1000 * ClockTolerance * now[2]
    IN  [size |-> Len(fs), first |-> fs[1].ts, minTs |-> least, late |-> late,
         host |-> IF late THEN now ELSE RatInt(0),
         kinds |-> {fs[i].type : i \in 1..Len(fs)}]

\* The values a sample of each stream may have
AllValues == [s \in Streams |-> IF s = "pose" THEN PoseValues ELSE Vec3Values]

\* Everything the environment may hand in
WholeEnv == [frameSets |-> FrameSets, hostTimes |-> HostTimes,
             waits |-> 0..MaxWaitMs, infos |-> BOOLEAN, firstWaits |-> FirstWaits,
             times |-> Times, values |-> AllValues]

\* The state the constructor leaves (CameraRealSense2.cpp:54-88)
Init ==
    /\ gyroBuffer = EmptyMap /\ accBuffer = EmptyMap /\ poseBuffer = EmptyMap
    /\ imuMutex = FreeMutex /\ poseMutex = FreeMutex
    /\ lastImuStamp = 0
    /\ clockSyncWarningShown = FALSE
    /\ imuGlobalSyncWarningShown = FALSE
    /\ odometryProvided = FALSE
    /\ globalTimeSync = TRUE
    /\ publishInterIMU = FALSE
    /\ dualMode = FALSE
    /\ isL500 = FALSE
    /\ ir = FALSE
    /\ irDepth = TRUE
    /\ phase = "config"
    /\ cbPc = [p \in Streams |-> "idle"]
    /\ pc = "idle"
    /\ ci = IdleCi
    /\ gp = IdleGp
    /\ data = EmptyData
    /\ odom = NoOdom
    /\ events = << >>
    /\ warnCount = NoWarnings
    /\ hist = [p \in Streams |-> NoHistory]
    /\ forwarded = {}
    /\ seen = NoneSeen
    /\ env = WholeEnv
    /\ ingestLeft = MaxIngest /\ capturesLeft = MaxCaptures /\ initsLeft = MaxInits

(* ------------------------------- options ------------------------------- *)

SetGlobalTimeSync(enabled) ==
    /\ phase = "config"
    /\ globalTimeSync' = enabled
    /\ UNCHANGED <<bufVars, lockVars, lastImuStamp, latchVars, odometryProvided,
                   publishInterIMU, dualMode, isL500, ir, irDepth, phaseVars, cbPc, pc,
                   ci, gp, outVars, warnCount, ghostVars, countVars>>

PublishInterIMU(enabled) ==
    /\ phase = "config"
    /\ publishInterIMU' = enabled
    /\ UNCHANGED <<bufVars, lockVars, lastImuStamp, latchVars, odometryProvided,
                   globalTimeSync, dualMode, isL500, ir, irDepth, phaseVars, cbPc, pc,
                   ci, gp, outVars, warnCount, ghostVars, countVars>>

SetDualMode(enabled) ==
    /\ phase = "config"
    /\ dualMode' = enabled
    /\ odometryProvided' = IF enabled THEN TRUE ELSE odometryProvided
    /\ UNCHANGED <<bufVars, lockVars, lastImuStamp, latchVars, globalTimeSync,
                   publishInterIMU, isL500, ir, irDepth, phaseVars, cbPc, pc,
                   ci, gp, outVars, warnCount, ghostVars, countVars>>

\* A variant of the setter below that leaves dualMode_ alone
SetOdomProvidedOnly(enabled) ==
    /\ phase = "config"
    /\ odometryProvided' = enabled
    /\ UNCHANGED <<bufVars, lockVars, lastImuStamp, latchVars, globalTimeSync,
                   publishInterIMU, dualMode, isL500, ir, irDepth, phaseVars, cbPc, pc,
                   ci, gp, outVars, warnCount, ghostVars, countVars>>

SetOdomProvided(enabled) ==
    /\ phase = "config"
    /\ dualMode' = IF dualMode /\ ~enabled THEN FALSE ELSE dualMode
    /\ odometryProvided' = enabled
    /\ UNCHANGED <<bufVars, lockVars, lastImuStamp, latchVars, globalTimeSync,
                   publishInterIMU, isL500, ir, irDepth, phaseVars, cbPc, pc,
                   ci, gp, outVars, warnCount, ghostVars, countVars>>

SetIRFormat(enabled, useDepthInsteadOfRightImage) ==
    /\ phase = "config"
    /\ ir' = enabled
    /\ irDepth' = useDepthInsteadOfRightImage
    /\ UNCHANGED <<bufVars, lockVars, lastImuStamp, latchVars, odometryProvided,
                   globalTimeSync, publishInterIMU, dualMode, isL500, phaseVars, cbPc, pc,
                   ci, gp, outVars, warnCount, ghostVars, countVars>>

\* init(): a session starts.  The latches are reset, the device tells whether
\* it is an L500, and the sensors start to deliver.
InitDevice(l500) ==
    /\ initsLeft > 0
    /\ pc = "idle"
    /\ \A p \in Streams : cbPc[p] = "idle"
    /\ initsLeft' = initsLeft - 1
    /\ clockSyncWarningShown' = FALSE
    /\ imuGlobalSyncWarningShown' = FALSE
    /\ isL500' = l500
    /\ phase' = "running"
    /\ warnCount' = NoWarnings
    /\ UNCHANGED <<bufVars, lockVars, lastImuStamp, odometryProvided, globalTimeSync,
                   publishInterIMU, dualMode, ir, irDepth, cbPc, pc, ci, gp,
                   outVars, ghostVars, env, ingestLeft, capturesLeft>>

(* --------------------------- ingest callbacks -------------------------- *)

BufferOf(p) ==
    IF p = "gyro" THEN gyroBuffer ELSE IF p = "acc" THEN accBuffer ELSE poseBuffer

MutexOf(p) == IF p = "pose" THEN poseMutex ELSE imuMutex

\* The delivered samples of a stream, kept while they arrive with strictly
\* increasing timestamps.
Delivered(h, ts, v) ==
    IF h.mono /\ (h.seq = << >> \/ h.seq[Len(h.seq)][1] < ts)
    THEN [mono |-> TRUE, seq |-> Append(h.seq, <<ts, v>>)]
    ELSE [mono |-> FALSE, seq |-> << >>]

\* A variant of the step below in which every callback takes imuMutex_
CbLockOneMutex(p) ==
    /\ phase = "running"
    /\ ingestLeft > 0
    /\ cbPc[p] = "idle"
    /\ p = "pose" => odometryProvided
    /\ imuMutex.count = 0
    /\ ingestLeft' = ingestLeft - 1
    /\ cbPc' = [cbPc EXCEPT ![p] = "locked"]
    /\ imuMutex' = Lock(imuMutex, p)
    /\ UNCHANGED <<bufVars, poseMutex, lastImuStamp, latchVars, cfgVars, phaseVars, pc, ci,
                   gp, outVars, warnCount, ghostVars, capturesLeft, initsLeft>>

\* A variant of the step below that calls pose_callback whatever the option
CbLockUngated(p) ==
    /\ phase = "running"
    /\ ingestLeft > 0
    /\ cbPc[p] = "idle"
    /\ MutexOf(p).count = 0
    /\ ingestLeft' = ingestLeft - 1
    /\ cbPc' = [cbPc EXCEPT ![p] = "locked"]
    /\ IF p = "pose"
       THEN poseMutex' = Lock(poseMutex, p) /\ UNCHANGED imuMutex
       ELSE imuMutex' = Lock(imuMutex, p) /\ UNCHANGED poseMutex
    /\ UNCHANGED <<bufVars, lastImuStamp, latchVars, cfgVars, phaseVars, pc, ci, gp,
                   outVars, warnCount, ghostVars, capturesLeft, initsLeft>>

\* multiple_message_callback dispatches a gyro, accel or pose frame to its
\* callback, which takes the stream's lock (UScopeMutex).
CbLock(p) ==
    /\ phase = "running"
    /\ ingestLeft > 0
    /\ cbPc[p] = "idle"
    /\ p = "pose" => odometryProvided
    /\ MutexOf(p).count = 0
    /\ ingestLeft' = ingestLeft - 1
    /\ cbPc' = [cbPc EXCEPT ![p] = "locked"]
    /\ IF p = "pose"
       THEN poseMutex' = Lock(poseMutex, p) /\ UNCHANGED imuMutex
       ELSE imuMutex' = Lock(imuMutex, p) /\ UNCHANGED poseMutex
    /\ UNCHANGED <<bufVars, lastImuStamp, latchVars, cfgVars, phaseVars, pc, ci, gp,
                   outVars, warnCount, ghostVars, capturesLeft, initsLeft>>

\* A pose frame while odometry is not provided: nothing is done with it.
CbPoseIgnored ==
    /\ phase = "running"
    /\ ingestLeft > 0
    /\ cbPc["pose"] = "idle"
    /\ ~odometryProvided
    /\ ingestLeft' = ingestLeft - 1
    /\ UNCHANGED <<bufVars, lockVars, lastImuStamp, latchVars, cfgVars, phaseVars, cbPc,
                   pc, ci, gp, outVars, warnCount, ghostVars, capturesLeft, initsLeft>>

\* The stream types multiple_message_callback has no case for: an image
\* stream, and a stream that is none of those the camera enables
OtherKinds == {"DEPTH", "GPIO"}

\* default: frame_callback(frame), which hands the frame to the syncer
CbFrame(kind) ==
    /\ phase = "running"
    /\ ingestLeft > 0
    /\ ingestLeft' = ingestLeft - 1
    /\ forwarded' = forwarded \cup {kind}
    /\ UNCHANGED <<bufVars, lockVars, lastImuStamp, latchVars, cfgVars, phaseVars, cbPc,
                   pc, ci, gp, outVars, warnCount, hist, seen, capturesLeft, initsLeft>>

\* A variant of the insert below that stores an inertial sample in both
\* inertial timelines
CbInsertShared(p, ts, v) ==
    /\ cbPc[p] = "locked"
    /\ cbPc' = [cbPc EXCEPT ![p] = "inserted"]
    /\ hist' = [hist EXCEPT ![p] = Delivered(@, ts, v)]
    /\ gyroBuffer' = IF p # "pose" THEN MapInsert(gyroBuffer, ts, v) ELSE gyroBuffer
    /\ accBuffer' = IF p # "pose" THEN MapInsert(accBuffer, ts, v) ELSE accBuffer
    /\ poseBuffer' = IF p = "pose" THEN MapInsert(poseBuffer, ts, v) ELSE poseBuffer
    /\ UNCHANGED <<lockVars, lastImuStamp, latchVars, cfgVars, phaseVars, pc, ci, gp,
                   outVars, warnCount, seen, forwarded, countVars>>

\* xBuffer_.insert(xBuffer_.end(), make_pair(frame.get_timestamp(), value))
CbInsert(p, ts, v) ==
    /\ cbPc[p] = "locked"
    /\ cbPc' = [cbPc EXCEPT ![p] = "inserted"]
    /\ hist' = [hist EXCEPT ![p] = Delivered(@, ts, v)]
    /\ gyroBuffer' = IF p = "gyro" THEN MapInsert(gyroBuffer, ts, v) ELSE gyroBuffer
    /\ accBuffer' = IF p = "acc" THEN MapInsert(accBuffer, ts, v) ELSE accBuffer
    /\ poseBuffer' = IF p = "pose" THEN MapInsert(poseBuffer, ts, v) ELSE poseBuffer
    /\ UNCHANGED <<lockVars, lastImuStamp, latchVars, cfgVars, phaseVars, pc, ci, gp,
                   outVars, warnCount, seen, forwarded, countVars>>

\* A variant of the eviction below that clears a timeline over capacity
EvictAll(m) == IF MapSize(m) > Capacity THEN EmptyMap ELSE m

\* A variant of the eviction below whose test is off by one
EvictLate(m) == IF MapSize(m) > Capacity + 1 THEN MapEraseBegin(m) ELSE m

\* if(xBuffer_.size() > 1000) xBuffer_.erase(xBuffer_.begin())
Evict(m) == IF MapSize(m) > Capacity THEN MapEraseBegin(m) ELSE m

\* The eviction, and the scope lock released as the callback returns.
CbEvictUnlock(p) ==
    /\ cbPc[p] = "inserted"
    /\ cbPc' = [cbPc EXCEPT ![p] = "idle"]
    /\ gyroBuffer' = IF p = "gyro" THEN Evict(gyroBuffer) ELSE gyroBuffer
    /\ accBuffer' = IF p = "acc" THEN Evict(accBuffer) ELSE accBuffer
    /\ poseBuffer' = IF p = "pose" THEN Evict(poseBuffer) ELSE poseBuffer
    /\ IF p = "pose"
       THEN poseMutex' = Unlock(poseMutex) /\ UNCHANGED imuMutex
       ELSE imuMutex' = Unlock(imuMutex) /\ UNCHANGED poseMutex
    /\ UNCHANGED <<lastImuStamp, latchVars, cfgVars, phaseVars, pc, ci, gp,
                   outVars, warnCount, ghostVars, countVars>>

(* ----------------------------- captureImage ---------------------------- *)

\* timer.elapsed() < 2.0, counted in waits of 100 ms: 20 of them in the
\* source (CameraRealSense2.cpp:1194); the model scales the deadline.
DeadlineTicks == 2

\* The record is returned: the locals die.
Return ==
    /\ pc' = "idle"
    /\ ci' = IdleCi
    /\ gp' = IdleGp

\* A frame set of the desired size: the timestamp, the clock check, the
\* images, and the call getPoseAndIMU(imuStamp, pose, confidence, imu).
AcceptFrameset(fs, now, info, wait) ==
    \E r \in {ProcessFrameset(fs, now, isL500, ir /\ ~irDepth)} :
        /\ data' = IF r.images
                   THEN [images |-> TRUE, stamp |-> r.stamp, imu |-> EmptyIMU]
                   ELSE EmptyData
        /\ warnCount' = IF r.anomaly /\ ~clockSyncWarningShown
                        THEN Warn(warnCount, {"clock"}) ELSE warnCount
        /\ clockSyncWarningShown' = (clockSyncWarningShown \/ r.anomaly)
        /\ ci' = [IdleCi EXCEPT !.imuStamp = ToMillis(r.stamp), !.info = info]
        /\ gp' = [IdleGp EXCEPT !.stamp = ToMillis(r.stamp),
                                !.maxWaitTimeMs = wait, !.caller = "main"]
        /\ pc' = "gp_entry"

\* A variant of the step below that sets the clock latch
RejectFramesetLatches(fs, info, elapsed, waited) ==
    /\ ci' = [IdleCi EXCEPT !.info = info, !.fsSize = Len(fs), !.elapsed = elapsed,
                            !.waited = waited]
    /\ pc' = "ci_retry"
    /\ clockSyncWarningShown' = TRUE
    /\ UNCHANGED <<warnCount, gp>>

\* A frame set of another size: the retry loop is entered, or goes on.
\* elapsed is timer.elapsed(), waited the time spent in wait_for_frames by
\* this call, both in waits of 100 ms.
RejectFrameset(fs, info, elapsed, waited) ==
    /\ ci' = [IdleCi EXCEPT !.info = info, !.fsSize = Len(fs), !.elapsed = elapsed,
                            !.waited = waited]
    /\ pc' = "ci_retry"
    /\ UNCHANGED <<warnCount, clockSyncWarningShown, gp>>

\* captureImage is called and syncer_->wait_for_frames(5000) returns fs after
\* f ticks; the timer is started after that.
CaptureFrames(fs, now, info, wait, f) ==
    /\ phase = "running"
    /\ pc = "idle"
    /\ capturesLeft > 0
    /\ capturesLeft' = capturesLeft - 1
    /\ odom' = NoOdom
    /\ seen' = Observed(fs, now)
    /\ IF Len(fs) = DesiredFramesetSize(isL500, globalTimeSync)
       THEN AcceptFrameset(fs, now, info, wait)
       ELSE /\ RejectFrameset(fs, info, 0, f)
            /\ data' = EmptyData
    /\ UNCHANGED <<bufVars, lockVars, lastImuStamp, imuGlobalSyncWarningShown,
                   cfgVars, phaseVars, cbPc, events, hist, forwarded, ingestLeft,
                   initsLeft>>

\* captureImage is called and wait_for_frames(5000) throws: no frame came.
CaptureTimeout ==
    /\ phase = "running"
    /\ pc = "idle"
    /\ capturesLeft > 0
    /\ capturesLeft' = capturesLeft - 1
    /\ odom' = NoOdom
    /\ data' = EmptyData
    /\ seen' = NoneSeen
    /\ Return
    /\ UNCHANGED <<bufVars, lockVars, lastImuStamp, latchVars, cfgVars, phaseVars, cbPc,
                   events, warnCount, hist, forwarded, ingestLeft, initsLeft>>

\* One turn of the retry loop: wait_for_frames(100) returns fs after d ticks.
RetryFrames(fs, now, wait, d) ==
    /\ pc = "ci_retry"
    /\ ci.elapsed < DeadlineTicks
    /\ seen' = Observed(fs, now)
    /\ IF Len(fs) = DesiredFramesetSize(isL500, globalTimeSync)
       THEN AcceptFrameset(fs, now, ci.info, wait)
       ELSE /\ RejectFrameset(fs, ci.info, ci.elapsed + d, ci.waited + d)
            /\ UNCHANGED data
    /\ UNCHANGED <<bufVars, lockVars, lastImuStamp, imuGlobalSyncWarningShown,
                   cfgVars, phaseVars, cbPc, odom, events, hist, forwarded, countVars>>

\* One turn of the retry loop: wait_for_frames(100) throws.
RetryTimeout ==
    /\ pc = "ci_retry"
    /\ ci.elapsed < DeadlineTicks
    /\ seen' = NoneSeen
    /\ Return
    /\ UNCHANGED <<bufVars, lockVars, lastImuStamp, latchVars, cfgVars, phaseVars, cbPc,
                   outVars, warnCount, hist, forwarded, countVars>>

\* The deadline is over and the set still has another size: "Missing frames".
RetryGiveUp ==
    /\ pc = "ci_retry"
    /\ ci.elapsed >= DeadlineTicks
    /\ Return
    /\ UNCHANGED <<bufVars, lockVars, lastImuStamp, latchVars, cfgVars, phaseVars, cbPc,
                   outVars, warnCount, ghostVars, countVars>>

(* ---------------------------- getPoseAndIMU ---------------------------- *)

\* The call returns to the place it was made from.
GpReturnPc == IF gp.caller = "main" THEN "ci_after_gp" ELSE "ci_loop_after_gp"

\* A variant of the step below that goes on whatever the timelines hold
GpEntryUntested ==
    /\ pc = "gp_entry"
    /\ pc' = "gp_pose_test"
    /\ UNCHANGED <<bufVars, lockVars, lastImuStamp, latchVars, cfgVars, phaseVars, cbPc,
                   ci, gp, outVars, warnCount, ghostVars, countVars>>

\* pose.setNull(); imu = IMU(); poseConfidence = 0;
\* if(accBuffer_.empty() || gyroBuffer_.empty()) return;
GpEntry ==
    /\ pc = "gp_entry"
    /\ pc' = IF MapEmpty(accBuffer) \/ MapEmpty(gyroBuffer)
             THEN GpReturnPc ELSE "gp_pose_test"
    /\ UNCHANGED <<bufVars, lockVars, lastImuStamp, latchVars, cfgVars, phaseVars, cbPc,
                   ci, gp, outVars, warnCount, ghostVars, countVars>>

\* if(!poseBuffer_.empty())
GpPoseTest ==
    /\ pc = "gp_pose_test"
    /\ pc' = IF ~MapEmpty(poseBuffer) THEN "gp_pose_lock" ELSE "gp_acc_lock"
    /\ UNCHANGED <<bufVars, lockVars, lastImuStamp, latchVars, cfgVars, phaseVars, cbPc,
                   ci, gp, outVars, warnCount, ghostVars, countVars>>

\* poseMutex_.lock(), at the block's start and again after each uSleep(1)
GpPoseLock ==
    /\ pc \in {"gp_pose_lock", "gp_pose_sleep"}
    /\ CanLock(poseMutex, "consumer")
    /\ poseMutex' = Lock(poseMutex, "consumer")
    /\ gp' = IF pc = "gp_pose_lock" THEN [gp EXCEPT !.waitTry = 0] ELSE gp
    /\ pc' = "gp_pose_wait"
    /\ UNCHANGED <<bufVars, imuMutex, lastImuStamp, latchVars, cfgVars, phaseVars, cbPc,
                   ci, outVars, warnCount, ghostVars, countVars>>

\* A variant of the loop test below that allows one poll more
WaitMoreInclusive(buf) ==
    /\ gp.maxWaitTimeMs > 0
    /\ KeyAt(buf, MapRBegin(buf)) < gp.stamp
    /\ gp.waitTry <= gp.maxWaitTimeMs

\* while(maxWaitTimeMs>0 && xBuffer_.rbegin()->first < stamp && waitTry < maxWaitTimeMs)
WaitMore(buf) ==
    /\ gp.maxWaitTimeMs > 0
    /\ KeyAt(buf, MapRBegin(buf)) < gp.stamp
    /\ gp.waitTry < gp.maxWaitTimeMs

\* A turn of the pose wait loop: poseMutex_.unlock(); ++waitTry;
GpPoseWait ==
    /\ pc = "gp_pose_wait"
    /\ WaitMore(poseBuffer)
    /\ poseMutex' = Unlock(poseMutex)
    /\ gp' = [gp EXCEPT !.waitTry = @ + 1]
    /\ pc' = "gp_pose_sleep"
    /\ UNCHANGED <<bufVars, imuMutex, lastImuStamp, latchVars, cfgVars, phaseVars, cbPc,
                   ci, outVars, warnCount, ghostVars, countVars>>

\* The pose wait loop is over: the pose is interpolated, or left null.
GpPoseCompute ==
    /\ pc = "gp_pose_wait"
    /\ ~WaitMore(poseBuffer)
    /\ \E r \in {PoseResult(poseBuffer, gp.stamp, gp.maxWaitTimeMs)} :
         /\ gp' = [gp EXCEPT !.pose = r.pose, !.poseConfidence = r.conf]
         /\ warnCount' = Warn(warnCount, {r.warn} \ {"none"})
    /\ pc' = "gp_pose_unlock"
    /\ UNCHANGED <<bufVars, lockVars, lastImuStamp, latchVars, cfgVars, phaseVars, cbPc,
                   ci, outVars, ghostVars, countVars>>

\* poseMutex_.unlock() at the end of the pose block
GpPoseUnlock ==
    /\ pc = "gp_pose_unlock"
    /\ poseMutex' = Unlock(poseMutex)
    /\ pc' = "gp_acc_lock"
    /\ UNCHANGED <<bufVars, imuMutex, lastImuStamp, latchVars, cfgVars, phaseVars, cbPc,
                   ci, gp, outVars, warnCount, ghostVars, countVars>>

\* imuMutex_.lock(), at the start of the acc block and of the gyro block and
\* again after each uSleep(1)
GpImuLock ==
    /\ pc \in {"gp_acc_lock", "gp_acc_sleep", "gp_gyro_lock", "gp_gyro_sleep"}
    /\ CanLock(imuMutex, "consumer")
    /\ imuMutex' = Lock(imuMutex, "consumer")
    /\ gp' = IF pc \in {"gp_acc_lock", "gp_gyro_lock"}
             THEN [gp EXCEPT !.waitTry = 0] ELSE gp
    /\ pc' = IF pc \in {"gp_acc_lock", "gp_acc_sleep"} THEN "gp_acc_wait"
             ELSE "gp_gyro_wait"
    /\ UNCHANGED <<bufVars, poseMutex, lastImuStamp, latchVars, cfgVars, phaseVars, cbPc,
                   ci, outVars, warnCount, ghostVars, countVars>>

\* A variant of the turn below that does not count its polls
GpAccWaitUncounted ==
    /\ pc = "gp_acc_wait"
    /\ WaitMore(accBuffer)
    /\ imuMutex' = Unlock(imuMutex)
    /\ pc' = "gp_acc_sleep"
    /\ UNCHANGED <<bufVars, poseMutex, lastImuStamp, latchVars, cfgVars, phaseVars, cbPc,
                   ci, gp, outVars, warnCount, ghostVars, countVars>>

\* A turn of the acc wait loop: imuMutex_.unlock(); ++waitTry;
GpAccWait ==
    /\ pc = "gp_acc_wait"
    /\ WaitMore(accBuffer)
    /\ imuMutex' = Unlock(imuMutex)
    /\ gp' = [gp EXCEPT !.waitTry = @ + 1]
    /\ pc' = "gp_acc_sleep"
    /\ UNCHANGED <<bufVars, poseMutex, lastImuStamp, latchVars, cfgVars, phaseVars, cbPc,
                   ci, outVars, warnCount, ghostVars, countVars>>

\* The warnings of the acc block and of the gyro block, by kind
ImuWarnings(stream, ws) ==
    {IF w = "restamp" THEN w ELSE stream \o (IF w = "lag" THEN "Lag" ELSE "Desync")
       : w \in ws}

\* The acc wait loop is over: acc is interpolated, re-stamped, or missing.
GpAccCompute ==
    /\ pc = "gp_acc_wait"
    /\ ~WaitMore(accBuffer)
    /\ \E r \in {VecResult(accBuffer, gp.stamp, gp.maxWaitTimeMs, globalTimeSync,
                          imuGlobalSyncWarningShown)} :
         /\ gp' = [gp EXCEPT !.acc = r.val, !.failed = ~r.ok]
         /\ warnCount' = Warn(warnCount, ImuWarnings("acc", r.warns))
         /\ imuGlobalSyncWarningShown' = r.shown
    /\ pc' = "gp_acc_unlock"
    /\ UNCHANGED <<bufVars, lockVars, lastImuStamp, clockSyncWarningShown, cfgVars,
                   phaseVars, cbPc, ci, outVars, ghostVars, countVars>>

\* A variant of the step below that returns without unlocking when acc is missing
GpAccUnlockLeaks ==
    /\ pc = "gp_acc_unlock"
    /\ imuMutex' = IF gp.failed THEN imuMutex ELSE Unlock(imuMutex)
    /\ pc' = IF gp.failed THEN GpReturnPc ELSE "gp_gyro_lock"
    /\ UNCHANGED <<bufVars, poseMutex, lastImuStamp, latchVars, cfgVars, phaseVars, cbPc,
                   ci, gp, outVars, warnCount, ghostVars, countVars>>

\* imuMutex_.unlock() of the acc block, then return (no acc) or go on to gyro
GpAccUnlock ==
    /\ pc = "gp_acc_unlock"
    /\ imuMutex' = Unlock(imuMutex)
    /\ pc' = IF gp.failed THEN GpReturnPc ELSE "gp_gyro_lock"
    /\ UNCHANGED <<bufVars, poseMutex, lastImuStamp, latchVars, cfgVars, phaseVars, cbPc,
                   ci, gp, outVars, warnCount, ghostVars, countVars>>

\* A variant of the turn below that polls while the budget lasts
GpGyroWaitBlind ==
    /\ pc = "gp_gyro_wait"
    /\ gp.maxWaitTimeMs > 0 /\ gp.waitTry < gp.maxWaitTimeMs
    /\ imuMutex' = Unlock(imuMutex)
    /\ gp' = [gp EXCEPT !.waitTry = @ + 1]
    /\ pc' = "gp_gyro_sleep"
    /\ UNCHANGED <<bufVars, poseMutex, lastImuStamp, latchVars, cfgVars, phaseVars, cbPc,
                   ci, outVars, warnCount, ghostVars, countVars>>

\* A turn of the gyro wait loop
GpGyroWait ==
    /\ pc = "gp_gyro_wait"
    /\ WaitMore(gyroBuffer)
    /\ imuMutex' = Unlock(imuMutex)
    /\ gp' = [gp EXCEPT !.waitTry = @ + 1]
    /\ pc' = "gp_gyro_sleep"
    /\ UNCHANGED <<bufVars, poseMutex, lastImuStamp, latchVars, cfgVars, phaseVars, cbPc,
                   ci, outVars, warnCount, ghostVars, countVars>>

\* The gyro wait loop is over: gyro is interpolated, re-stamped, or missing.
GpGyroCompute ==
    /\ pc = "gp_gyro_wait"
    /\ ~WaitMore(gyroBuffer)
    /\ \E r \in {VecResult(gyroBuffer, gp.stamp, gp.maxWaitTimeMs, globalTimeSync,
                          imuGlobalSyncWarningShown)} :
         /\ gp' = [gp EXCEPT !.gyro = r.val, !.failed = ~r.ok]
         /\ warnCount' = Warn(warnCount, ImuWarnings("gyro", r.warns))
         /\ imuGlobalSyncWarningShown' = r.shown
    /\ pc' = "gp_gyro_unlock"
    /\ UNCHANGED <<bufVars, lockVars, lastImuStamp, clockSyncWarningShown, cfgVars,
                   phaseVars, cbPc, ci, outVars, ghostVars, countVars>>

\* A variant of the step below that builds the reading from whatever it holds
GpGyroUnlockAlways ==
    /\ pc = "gp_gyro_unlock"
    /\ imuMutex' = Unlock(imuMutex)
    /\ gp' = [gp EXCEPT !.imu = MakeIMU(gp.gyro, gp.acc)]
    /\ pc' = GpReturnPc
    /\ UNCHANGED <<bufVars, poseMutex, lastImuStamp, latchVars, cfgVars, phaseVars, cbPc,
                   ci, outVars, warnCount, ghostVars, countVars>>

\* imuMutex_.unlock() of the gyro block, then return without a reading, or
\* imu = IMU(gyro, ..., acc, ...) and return
GpGyroUnlock ==
    /\ pc = "gp_gyro_unlock"
    /\ imuMutex' = Unlock(imuMutex)
    /\ gp' = IF gp.failed THEN gp ELSE [gp EXCEPT !.imu = MakeIMU(gp.gyro, gp.acc)]
    /\ pc' = GpReturnPc
    /\ UNCHANGED <<bufVars, poseMutex, lastImuStamp, latchVars, cfgVars, phaseVars, cbPc,
                   ci, outVars, warnCount, ghostVars, countVars>>

(* -------------------- captureImage after getPoseAndIMU ----------------- *)

\* if(info && odometryProvided_ && !pose.isNull()) info->odomPose = ...
\* (the fixed local transform applied to the pose is left out)
OdomAfter ==
    IF ci.info /\ odometryProvided /\ ~gp.pose.null
    THEN [set |-> TRUE, pose |-> gp.pose, confidence |-> gp.poseConfidence]
    ELSE odom

\* A variant of the step below that does not look at publishInterIMU_
CiSetIMUAlways ==
    /\ pc = "ci_after_gp"
    /\ ~gp.imu.empty
    /\ odom' = OdomAfter
    /\ data' = [data EXCEPT !.imu = gp.imu]
    /\ Return
    /\ UNCHANGED <<bufVars, lockVars, lastImuStamp, latchVars, cfgVars, phaseVars, cbPc,
                   events, warnCount, ghostVars, countVars>>

\* if(!imu.empty() && !publishInterIMU_) data.setIMU(imu);
CiSetIMU ==
    /\ pc = "ci_after_gp"
    /\ ~gp.imu.empty /\ ~publishInterIMU
    /\ odom' = OdomAfter
    /\ data' = [data EXCEPT !.imu = gp.imu]
    /\ Return
    /\ UNCHANGED <<bufVars, lockVars, lastImuStamp, latchVars, cfgVars, phaseVars, cbPc,
                   events, warnCount, ghostVars, countVars>>

\* A variant of the step below that gives up the record
CiNoIMUFails ==
    /\ pc = "ci_after_gp"
    /\ ~(~gp.imu.empty /\ ~publishInterIMU)
    /\ ~(publishInterIMU /\ ~MapEmpty(gyroBuffer))
    /\ odom' = OdomAfter
    /\ data' = EmptyData
    /\ Return
    /\ UNCHANGED <<bufVars, lockVars, lastImuStamp, latchVars, cfgVars, phaseVars, cbPc,
                   events, warnCount, ghostVars, countVars>>

\* Neither branch is taken: no reading for the record, no intermediate events.
CiNoIMU ==
    /\ pc = "ci_after_gp"
    /\ ~(~gp.imu.empty /\ ~publishInterIMU)
    /\ ~(publishInterIMU /\ ~MapEmpty(gyroBuffer))
    /\ odom' = OdomAfter
    /\ Return
    /\ UNCHANGED <<bufVars, lockVars, lastImuStamp, latchVars, cfgVars, phaseVars, cbPc,
                   data, events, warnCount, ghostVars, countVars>>

\* else if(publishInterIMU_ && !gyroBuffer_.empty()), first cycle
\* (lastImuStamp_ is 0): only lastImuStamp_ = imuStamp.
CiInterFirst ==
    /\ pc = "ci_after_gp"
    /\ publishInterIMU /\ ~MapEmpty(gyroBuffer)
    /\ ~(lastImuStamp > 0)
    /\ odom' = OdomAfter
    /\ lastImuStamp' = ci.imuStamp
    /\ Return
    /\ UNCHANGED <<bufVars, lockVars, latchVars, cfgVars, phaseVars, cbPc,
                   data, events, warnCount, ghostVars, countVars>>

\* UASSERT(imuStamp > lastImuStamp_) fails: it throws, captureImage catches
\* the exception and returns the record as it is.
CiInterAssertFails ==
    /\ pc = "ci_after_gp"
    /\ publishInterIMU /\ ~MapEmpty(gyroBuffer)
    /\ lastImuStamp > 0
    /\ ~(ci.imuStamp > lastImuStamp)
    /\ odom' = OdomAfter
    /\ Return
    /\ UNCHANGED <<bufVars, lockVars, lastImuStamp, latchVars, cfgVars, phaseVars, cbPc,
                   data, events, warnCount, ghostVars, countVars>>

\* iterA = upper_bound(lastImuStamp_), iterB = lower_bound(imuStamp), each
\* stepped forward once unless it is end()
InterIterA(m, last) ==
    LET a == UpperBound(m, last) IN IF a # MapEnd(m) THEN a + 1 ELSE a

InterIterB(m, stamp) ==
    LET b == LowerBound(m, stamp) IN IF b # MapEnd(m) THEN b + 1 ELSE b

\* imuMutex_.lock() and the two iterators of the intermediate-event loop
CiInterLock ==
    /\ pc = "ci_after_gp"
    /\ publishInterIMU /\ ~MapEmpty(gyroBuffer)
    /\ lastImuStamp > 0
    /\ ci.imuStamp > lastImuStamp
    /\ CanLock(imuMutex, "consumer")
    /\ imuMutex' = Lock(imuMutex, "consumer")
    /\ odom' = OdomAfter
    /\ ci' = [ci EXCEPT !.iterA = InterIterA(gyroBuffer, lastImuStamp),
                        !.iterB = InterIterB(gyroBuffer, ci.imuStamp)]
    /\ gp' = IdleGp
    /\ pc' = "ci_inter_loop"
    /\ UNCHANGED <<bufVars, poseMutex, lastImuStamp, latchVars, cfgVars, phaseVars, cbPc,
                   data, events, warnCount, ghostVars, countVars>>

\* for(;iterA != iterB;++iterA) getPoseAndIMU(iterA->first, tmp, confidence, imuTmp)
CiInterCall(wait) ==
    /\ pc = "ci_inter_loop"
    /\ ci.iterA # ci.iterB
    /\ gp' = [IdleGp EXCEPT !.stamp = KeyAt(gyroBuffer, ci.iterA),
                            !.maxWaitTimeMs = wait, !.caller = "inter"]
    /\ pc' = "gp_entry"
    /\ UNCHANGED <<bufVars, lockVars, lastImuStamp, latchVars, cfgVars, phaseVars, cbPc,
                   ci, outVars, warnCount, ghostVars, countVars>>

\* UEventsManager::post(new IMUEvent(imuTmp, iterA->first/1000.0)); ++iterA
CiInterPost ==
    /\ pc = "ci_loop_after_gp"
    /\ ~gp.imu.empty
    /\ events' = Append(events, ToSeconds(KeyAt(gyroBuffer, ci.iterA)))
    /\ ci' = [ci EXCEPT !.iterA = @ + 1]
    /\ gp' = IdleGp
    /\ pc' = "ci_inter_loop"
    /\ UNCHANGED <<bufVars, lockVars, lastImuStamp, latchVars, cfgVars, phaseVars, cbPc,
                   data, odom, warnCount, ghostVars, countVars>>

\* A variant of the step below that leaves lastImuStamp_ as it is
CiInterEndKeepsStamp ==
    /\ \/ pc = "ci_inter_loop" /\ ci.iterA = ci.iterB
       \/ pc = "ci_loop_after_gp" /\ gp.imu.empty
    /\ imuMutex' = Unlock(imuMutex)
    /\ Return
    /\ UNCHANGED <<bufVars, poseMutex, lastImuStamp, latchVars, cfgVars, phaseVars, cbPc,
                   outVars, warnCount, ghostVars, countVars>>

\* The loop ends (iterA reached iterB, or imuTmp is empty: break):
\* imuMutex_.unlock(); lastImuStamp_ = imuStamp; and the record is returned.
CiInterEnd ==
    /\ \/ pc = "ci_inter_loop" /\ ci.iterA = ci.iterB
       \/ pc = "ci_loop_after_gp" /\ gp.imu.empty
    /\ imuMutex' = Unlock(imuMutex)
    /\ lastImuStamp' = ci.imuStamp
    /\ Return
    /\ UNCHANGED <<bufVars, poseMutex, latchVars, cfgVars, phaseVars, cbPc,
                   outVars, warnCount, ghostVars, countVars>>

(* ---------------------------- specification ---------------------------- *)

Configure ==
    \/ \E b \in BOOLEAN : SetGlobalTimeSync(b)
    \/ \E b \in BOOLEAN : PublishInterIMU(b)
    \/ \E b \in BOOLEAN : SetDualMode(b)
    \/ \E b \in BOOLEAN : SetOdomProvided(b)
    \/ \E a \in BOOLEAN, b \in BOOLEAN : SetIRFormat(a, b)
    \/ \E l \in BOOLEAN : InitDevice(l)

Ingest ==
    \/ \E p \in Streams : CbLock(p)
    \/ CbPoseIgnored
    \/ \E p \in Streams : \E ts \in env.times : \E v \in env.values[p] : CbInsert(p, ts, v)
    \/ \E p \in Streams : CbEvictUnlock(p)

Capture ==
    \/ \E fs \in env.frameSets, now \in env.hostTimes, info \in env.infos,
          w \in env.waits, f \in env.firstWaits : CaptureFrames(fs, now, info, w, f)
    \/ CaptureTimeout
    \/ \E fs \in env.frameSets, now \in env.hostTimes, w \in env.waits, d \in {0, 1} :
          RetryFrames(fs, now, w, d)
    \/ RetryTimeout
    \/ RetryGiveUp
    \/ CiSetIMU \/ CiNoIMU \/ CiInterFirst \/ CiInterAssertFails
    \/ CiInterLock
    \/ \E w \in env.waits : CiInterCall(w)
    \/ CiInterPost \/ CiInterEnd

Interpolate ==
    \/ GpEntry \/ GpPoseTest \/ GpPoseLock \/ GpPoseWait \/ GpPoseCompute
    \/ GpPoseUnlock \/ GpImuLock \/ GpAccWait \/ GpAccCompute \/ GpAccUnlock
    \/ GpGyroWait \/ GpGyroCompute \/ GpGyroUnlock

\* multiple_message_callback on a frame of any stream
Dispatch == Ingest \/ \E kind \in OtherKinds : CbFrame(kind)

Next == Configure \/ Dispatch \/ Capture \/ Interpolate

\* The whole program, from the constructor on.
Spec == Init /\ [][Next]_vars

\* The setters called in any order on a constructed camera, and init()
SpecConfig == Init /\ [][Configure]_vars

(* ------------------------- sessions under way -------------------------- *)

\* A session under way, between two callbacks and two captures: the options
\* as set before init(), the timelines as filled so far.
Running(g, a, p, sync, inter, provided, l500, stereo, e, nIngest, nCaptures, nInits) ==
    /\ gyroBuffer = g /\ accBuffer = a /\ poseBuffer = p
    /\ imuMutex = FreeMutex /\ poseMutex = FreeMutex
    /\ lastImuStamp = 0
    /\ clockSyncWarningShown = FALSE
    /\ imuGlobalSyncWarningShown = FALSE
    /\ odometryProvided = provided
    /\ globalTimeSync = sync
    /\ publishInterIMU = inter
    /\ dualMode = FALSE
    /\ isL500 = l500
    /\ ir = stereo
    /\ irDepth = ~stereo
    /\ phase = "running"
    /\ cbPc = [s \in Streams |-> "idle"]
    /\ pc = "idle"
    /\ ci = IdleCi
    /\ gp = IdleGp
    /\ data = EmptyData
    /\ odom = NoOdom
    /\ events = << >>
    /\ warnCount = NoWarnings
    /\ hist = [s \in Streams |->
                 IF MapEmpty(IF s = "gyro" THEN g ELSE IF s = "acc" THEN a ELSE p)
                 THEN NoHistory ELSE UnknownHistory]
    /\ seen = NoneSeen
    /\ forwarded = {}
    /\ env = e
    /\ ingestLeft = nIngest /\ capturesLeft = nCaptures /\ initsLeft = nInits

\* Every content a timeline can have between two callbacks
Timelines(Vals) ==
    {EmptyMap} \cup
    UNION {[S -> Vals] : S \in {T \in SUBSET Times : T # {} /\ Cardinality(T) <= Capacity}}

\* The environment of the ingest callbacks: samples of every timestamp, of
\* every value for gyro and pose and of one value for accel
IngestEnv ==
    [WholeEnv EXCEPT !.values = [s \in Streams |->
        IF s = "acc" THEN {<<0, 0, 1>>} ELSE AllValues[s]]]

\* The ingest callbacks alone, from the empty timelines on, with odometry
\* provided or not.
InitIngest ==
    \E provided \in BOOLEAN :
        Running(EmptyMap, EmptyMap, EmptyMap, TRUE, FALSE, provided, FALSE, FALSE,
                IngestEnv, MaxIngest, 0, 0)

SpecIngest == InitIngest /\ [][Ingest]_vars

\* The dispatch of the frames of every stream, from the empty timelines on
SpecDispatch == InitIngest /\ [][Dispatch]_vars

\* A timeline of one value that starts at the first sample time and ends
\* before the last, or starts later and ends at the last
Early(v) == [t \in {1, MaxTime - 1} |-> v]
Late(v) == [t \in {2, MaxTime} |-> v]

\* A timeline that is empty, or spans all the sample times with one value
Spanning(Vals) == {EmptyMap} \cup {[t \in {1, MaxTime} |-> v] : v \in Vals}

\* Frame sets of the desired size for a D400: a colour and a depth frame of
\* one timestamp
AlignedPairs == {<<Frame("COLOR", t), Frame("DEPTH", t)>> : t \in Times}

\* The environment of the interpolation: a frame at each sample time, every
\* wait budget, host time in step with the device
InterpEnv == [frameSets |-> AlignedPairs, hostTimes |-> {Rat(1, 1000)},
              waits |-> 0..MaxWaitMs, infos |-> {TRUE}, firstWaits |-> {0},
              times |-> Times, values |-> AllValues]

\* One capture against every content of the gyro timeline (the accel timeline
\* empty or spanning) and every content of the accel timeline (the gyro one
\* empty or spanning), strict and lenient, no callback under way.
InitImu ==
    \E g \in Timelines(Vec3Values), a \in Timelines(Vec3Values),
       p \in Spanning(PoseValues), sync \in BOOLEAN :
        /\ g \in Spanning(Vec3Values) \/ a \in Spanning(Vec3Values)
        /\ Running(g, a, p, sync, FALSE, TRUE, FALSE, FALSE, InterpEnv, 0, 1, 0)

\* One capture against every content of the pose timeline.
InitPose ==
    \E p \in Timelines(PoseValues), g \in Spanning(Vec3Values),
       a \in Spanning(Vec3Values), sync \in BOOLEAN :
        Running(g, a, p, sync, FALSE, TRUE, FALSE, FALSE, InterpEnv, 0, 1, 0)

\* The environment of the frame aggregation: every frame set, host time in
\* step with the device or ahead of it
FramesEnv == [frameSets |-> FrameSets, hostTimes |-> HostTimes,
              waits |-> {0}, infos |-> {TRUE}, firstWaits |-> {0},
              times |-> Times, values |-> AllValues]

\* Captures of every frame set by every device layout.
InitFrames ==
    \E g \in {Early(<<0, 0, 1>>)}, sync \in BOOLEAN, l500 \in BOOLEAN,
       stereo \in BOOLEAN :
        Running(g, g, EmptyMap, sync, FALSE, FALSE, l500, stereo, FramesEnv, 0, 1, 0)

\* The environment of the sessions below: frames at the first and the last
\* sample time, a lone frame, samples of the last sample time
SmallEnv == [frameSets |-> {<<Frame("COLOR", t), Frame("DEPTH", t)>> : t \in {1, MaxTime}}
                            \cup {<<Frame("COLOR", 2)>>},
             hostTimes |-> {Rat(1, 1000)}, waits |-> 0..MaxWaitMs, infos |-> {TRUE},
             firstWaits |-> FirstWaits, times |-> {MaxTime},
             values |-> [s \in Streams |-> IF s = "pose" THEN {<<4, 3>>} ELSE {<<0, 0, 1>>}]]

\* Sessions with callbacks, captures and init() interleaved: one inertial
\* stream starts later than the other; either a pose stream is there and
\* feeds the odometry, or intermediate inertial events are published.
InitSession ==
    \E v \in SmallEnv.values["gyro"], q \in SmallEnv.values["pose"],
       lateGyro \in BOOLEAN, sync \in BOOLEAN, provided \in BOOLEAN :
        Running(IF lateGyro THEN Late(v) ELSE Early(v),
                IF lateGyro THEN Early(v) ELSE Late(v),
                IF ~provided THEN EmptyMap ELSE IF lateGyro THEN Early(q) ELSE Late(q),
                sync, ~provided, provided, FALSE, FALSE, SmallEnv,
                MaxSessionIngest, MaxCaptures, MaxSessionInits)

\* The running program: callbacks, captures, interpolation, and init() called
\* again on the same device.
Run == Ingest \/ Capture \/ Interpolate \/ InitDevice(isL500)

SpecImu == (InitImu \/ InitSession) /\ [][Run]_vars
SpecPose == (InitPose \/ InitSession) /\ [][Run]_vars
SpecFrames == (InitFrames \/ InitSession) /\ [][Run]_vars
SpecSession == InitSession /\ [][Run]_vars

\* The environment of the odometry output: a frame at each sample time, an
\* info object given or not, samples between the stored ones
OdomEnv == [InterpEnv EXCEPT !.infos = BOOLEAN, !.waits = {0}, !.times = {2}]

\* One capture and one callback, with odometry provided and a pose timeline
\* that spans the sample times, or not provided since construction.
InitOdom ==
    \E provided \in BOOLEAN, q \in PoseValues :
        Running([t \in {1, MaxTime} |-> <<0, 0, 1>>], [t \in {1, MaxTime} |-> <<0, 0, 1>>],
                IF provided THEN [t \in {1, MaxTime} |-> q] ELSE EmptyMap,
                TRUE, FALSE, provided, FALSE, FALSE, OdomEnv, 1, 1, 0)

SpecOdom == (InitOdom \/ InitSession) /\ [][Run]_vars

\* The environment of the intermediate inertial events: frames of three
\* timestamps further and further apart, samples that arrive after the stored
\* ones
InterEnv == [frameSets |-> {<<Frame("COLOR", t), Frame("DEPTH", t)>>
                              : t \in {1, MaxTime, MaxTime + 2}},
             hostTimes |-> {Rat(1, 1000)}, waits |-> {0}, infos |-> {TRUE},
             firstWaits |-> {0}, times |-> {MaxTime + 1, MaxTime + 2},
             values |-> [s \in Streams |-> IF s = "pose" THEN {<<4, 3>>} ELSE {<<0, 0, 1>>}]]

\* Three capture cycles with publishInterIMU_ on and two callbacks: gyro ticks
\* before the second frame, an accel timeline that covers the later frames.
InitInter ==
    \E sync \in BOOLEAN :
        Running([t \in {MaxTime - 1, MaxTime} |-> <<0, 0, 1>>],
                [t \in {MaxTime, MaxTime + 2} |-> <<0, 0, 1>>],
                EmptyMap, sync, TRUE, FALSE, FALSE, FALSE, InterEnv, 2, 3, 0)

\* The non-empty contents of a timeline, all samples of one value
Stored(v) ==
    {[t \in S |-> v] : S \in {T \in SUBSET Times : T # {} /\ Cardinality(T) <= Capacity}}

\* One capture against every content of the three timelines at once, a
\* single sample included.
InitBracket ==
    \E g \in Stored(<<0, 0, 1>>), a \in Stored(<<0, 0, 3>>), p \in Stored(<<4, 3>>),
       sync \in BOOLEAN :
        Running(g, a, p, sync, FALSE, TRUE, FALSE, FALSE, InterpEnv, 0, 1, 0)

SpecBracket == (InitBracket \/ InitSession) /\ [][Run]_vars

SpecInter == (InitInter \/ InitSession) /\ [][Run]_vars

\* A step of a call of captureImage under way
ConsumerStep == pc # "idle" /\ (Capture \/ Interpolate)

\* A turn of the retry loop during which the timer advances
TimePasses ==
    \E fs \in env.frameSets, now \in env.hostTimes, w \in env.waits :
        RetryFrames(fs, now, w, 1)

\* A callback that holds its lock inserts, evicts and returns
CallbackStep ==
    \E p \in Streams : (\E ts \in env.times : \E v \in env.values[p] : CbInsert(p, ts, v))
                           \/ CbEvictUnlock(p)

\* The scheduling: a thread that can run does run (the consumer inside a
\* call, a callback that holds its lock), the timer of the retry loop
\* advances, and a lock that is free again and again is acquired in the end.
Fairness ==
    /\ WF_vars(ConsumerStep)
    /\ WF_vars(TimePasses)
    /\ WF_vars(CallbackStep)
    /\ SF_vars(GpPoseLock) /\ SF_vars(GpImuLock) /\ SF_vars(CiInterLock)

\* The sessions under this scheduling
LiveSession == InitSession /\ [][Run]_vars /\ Fairness

(* ------------------------------- claims -------------------------------- *)

\* The lock of stream p is not held by an ingest callback.
NoProducerHolds(p) == MutexOf(p).owner \notin Streams

\* C1: whenever no ingest callback holds a timeline's lock, i.e. after every
\* insert has completed, the timeline holds at most Capacity samples.
C1_Bounded ==
    \A p \in Streams : NoProducerHolds(p) => MapSize(BufferOf(p)) <= Capacity

\* C1's case: more samples than the capacity were delivered to a timeline,
\* and its callback has returned.
C1_Witness ==
    \E p \in Streams :
        /\ NoProducerHolds(p)
        /\ hist[p].mono /\ Len(hist[p].seq) > Capacity
        /\ MapSize(BufferOf(p)) = Capacity

\* The last n entries of a sequence, as a set
LastOf(seq, n) == {seq[i] : i \in {j \in 1..Len(seq) : j > Len(seq) - n}}

\* C2: when the samples of a stream arrive with strictly increasing
\* timestamps, then after each callback the timeline holds exactly the
\* Capacity samples delivered last (all of them while they are fewer): of
\* capacity+k samples the k delivered first are gone and no other.
C2_KeepsNewest ==
    \A p \in Streams :
        (cbPc[p] = "idle" /\ hist[p].mono) =>
            LET kept == LastOf(hist[p].seq, Capacity)
            IN  /\ DOMAIN BufferOf(p) = {x[1] : x \in kept}
                /\ \A x \in kept : BufferOf(p)[x[1]] = x[2]

\* C2's case: capacity+k samples, k > 0, arrived in increasing order.
C2_Witness ==
    \E p \in Streams :
        /\ cbPc[p] = "idle" /\ hist[p].mono
        /\ Len(hist[p].seq) > Capacity
        /\ hist[p].seq[1][1] \notin DOMAIN BufferOf(p)

(* ----------------------- claims on interpolation ----------------------- *)

\* Where a block of getPoseAndIMU has just produced its result, the lock of
\* its timeline still held: the timeline is the one the result was read from.
PoseDone == pc = "gp_pose_unlock"
AccDone == pc = "gp_acc_unlock"
GyroDone == pc = "gp_gyro_unlock"

Earliest(m) == Min(DOMAIN m)
Latest(m) == Max(DOMAIN m)

\* C3: interpolating at the timestamp of a stored sample, at any position of
\* the timeline, returns that sample's value unmodified: the stored vector
\* for accel and gyro, the stored transform and the confidence stored with
\* it for pose.
C3_ExactMatch ==
    /\ (PoseDone /\ gp.stamp \in DOMAIN poseBuffer) =>
           /\ gp.pose = PoseOf(RatInt(poseBuffer[gp.stamp][1]))
           /\ gp.poseConfidence = poseBuffer[gp.stamp][2]
    /\ (AccDone /\ gp.stamp \in DOMAIN accBuffer) =>
           ~gp.failed /\ gp.acc = VecOfInts(accBuffer[gp.stamp])
    /\ (GyroDone /\ gp.stamp \in DOMAIN gyroBuffer) =>
           ~gp.failed /\ gp.gyro = VecOfInts(gyroBuffer[gp.stamp])

\* The adjacent pairs of stored timestamps that enclose a target strictly
Enclosing(m, t) ==
    {x \in (DOMAIN m) \X (DOMAIN m) :
        /\ x[1] < t /\ t < x[2]
        /\ \A k \in DOMAIN m : k <= x[1] \/ k >= x[2]}

\* v0 + ((t-t0)/(t1-t0))*(v1-v0) on each component, as one fraction
Between(m, t, x) ==
    [i \in 1..3 |->
        Rat(m[x[1]][i] * (x[2] - x[1]) + (t - x[1]) * (m[x[2]][i] - m[x[1]][i]),
            x[2] - x[1])]

\* C4: for a target strictly between two adjacent stored timestamps
\* t0 < t < t1 of the accel (resp. gyro) timeline, the reading is
\* v0 + ((t-t0)/(t1-t0))*(v1-v0) on each of the three components.
C4_Linear ==
    /\ AccDone =>
          \A x \in Enclosing(accBuffer, gp.stamp) :
              ~gp.failed /\ gp.acc = Between(accBuffer, gp.stamp, x)
    /\ GyroDone =>
          \A x \in Enclosing(gyroBuffer, gp.stamp) :
              ~gp.failed /\ gp.gyro = Between(gyroBuffer, gp.stamp, x)

\* A gyro reading is interpolated between two samples of different values.
C4_Witness ==
    /\ GyroDone
    /\ \E x \in Enclosing(gyroBuffer, gp.stamp) :
          /\ gyroBuffer[x[1]] # gyroBuffer[x[2]]
          /\ gp.gyro = Between(gyroBuffer, gp.stamp, x)

C6_AfterLatest ==
    /\ (AccDone /\ gp.stamp > Latest(accBuffer)) =>
           IF globalTimeSync THEN gp.failed
           ELSE ~gp.failed /\ gp.acc = VecOfInts(accBuffer[Latest(accBuffer)])
    /\ (GyroDone /\ gp.stamp > Latest(gyroBuffer)) =>
           IF globalTimeSync THEN gp.failed
           ELSE ~gp.failed /\ gp.gyro = VecOfInts(gyroBuffer[Latest(gyroBuffer)])

\* C7: in lenient mode, with both inertial timelines non-empty (the call got
\* past its first test), every call produces an inertial reading, whatever
\* the target and the wait budget.
C7_LenientAlwaysReads ==
    (~globalTimeSync /\ (AccDone \/ GyroDone)) => ~gp.failed

(* -------------------------- claims on capture -------------------------- *)

\* The frame set size the active mode expects
ExpectedSize == IF isL500 /\ globalTimeSync THEN 3 ELSE 2

\* C8: no record carries images from a frame set whose size differs from the
\* expected one (2, or 3 for an L500 with globalTimeSync on); when the size
\* still differs after the retry loop, the record returned is empty.
C8_CompleteSets ==
    /\ data.images => seen.size = ExpectedSize
    /\ seen.size # ExpectedSize => data = EmptyData

\* The retry loop was given up with a frame set of another size than the
\* expected one, and the record returned is empty.
C8_Witness ==
    /\ pc = "idle"
    /\ seen.size \notin {0, ExpectedSize}
    /\ data = EmptyData

\* The kinds of warning the claim C9 names
OnceKinds == {"clock", "poseDesync", "accDesync", "gyroDesync"}

\* C9: within one session the clock-mismatch warning and the
\* desynchronization warning of each of pose, accel and gyro are emitted at
\* most once, in strict and in lenient mode.
C9_WarnOnce == \A k \in OnceKinds : warnCount[k] <= 1

\* C10: the timestamp of a record built from a complete frame set that
\* passes the clock check is the least of its frames' timestamps, in
\* seconds.
C10_MinStamp ==
    (data.images /\ ~seen.late) => data.stamp = Rat(seen.minTs, 1000)

\* A record was built from a frame set that passes the clock check and
\* whose first frame is not the earliest one.
C10_Witness ==
    /\ data.images /\ ~seen.late
    /\ pc \in {"gp_entry", "idle"}
    /\ data.stamp = Rat(seen.minTs, 1000)
    /\ seen.first > seen.minTs

\* The frame set seen last is complete and holds the image pair of a device
\* that is not read as an infrared stereo pair: a colour and a depth frame.
ColourDepthSeen ==
    /\ seen.size = ExpectedSize
    /\ {"COLOR", "DEPTH"} \subseteq seen.kinds
    /\ isL500 \/ ~(ir /\ ~irDepth)

\* C11: the record built from a complete frame set with its image pair has
\* its images and the frame set's timestamp whatever the pose and inertial
\* timelines hold, from the moment it is built to the return of the call.
C11_ImagesKept ==
    ColourDepthSeen =>
        /\ data.images
        /\ ~seen.late => data.stamp = Rat(seen.minTs, 1000)

\* A capture returned its images although the accel timeline lags behind
\* the target and no inertial reading could be made.
C11_Witness ==
    /\ pc = "idle" /\ ColourDepthSeen
    /\ data.images /\ data.imu.empty
    /\ ~MapEmpty(accBuffer) /\ ~MapEmpty(gyroBuffer)
    /\ Latest(accBuffer) < seen.minTs

\* A step of captureImage on its way to a failed aggregation: the wait on
\* the syncer threw, or returned a frame set of another size than expected,
\* or the retry loop was given up.
AggregationFails ==
    /\ pc \in {"idle", "ci_retry"} /\ pc' \in {"idle", "ci_retry"}
    /\ capturesLeft' # capturesLeft \/ ci' # ci \/ pc' # pc \/ seen' # seen

\* C12: when the frame aggregation fails, the record is empty (no images,
\* no inertial reading), and the call leaves the three timelines, the two
\* latches and lastImuStamp_ as they were and posts no inertial event.
C12_FailureLeavesState ==
    [][AggregationFails =>
          /\ data' = EmptyData
          /\ UNCHANGED <<gyroBuffer, accBuffer, poseBuffer, clockSyncWarningShown,
                         imuGlobalSyncWarningShown, lastImuStamp, events>>]_vars

\* After a capture that set lastImuStamp_, a capture gave up on a frame set
\* of another size and returned the empty record.
C12_Witness ==
    /\ pc = "idle" /\ capturesLeft = 0
    /\ seen.size \notin {0, ExpectedSize}
    /\ lastImuStamp > 0
    /\ data = EmptyData

\* C13: every call of captureImage returns, under every interleaving with
\* the callbacks, in strict and lenient mode, with intermediate inertial
\* events on or off and any wait budget.
C13_Returns == (pc # "idle") ~> (pc = "idle")

\* The consumer slept in the accel wait loop and now finds the lock held by
\* a callback.
C13_Witness ==
    /\ pc = "gp_acc_sleep"
    /\ ~CanLock(imuMutex, "consumer")

\* C14: counting every wait on the multiplexer made by one call, the first
\* one included, a call that still has no complete frame set has waited no
\* longer than the deadline plus one retry step.
C14_WaitBounded == pc = "ci_retry" => ci.waited <= DeadlineTicks + 1

\* The next step of the consumer reads the timeline of stream p: the
\* emptiness tests on entering getPoseAndIMU (accBuffer_, then gyroBuffer_)
\* and before the pose block, the latest-timestamp reads and bracket lookups
\* of the three blocks, the emptiness test of gyroBuffer_ after the call and
\* the iteration over it.
ConsumerReads(p) ==
    \/ p = "acc" /\ pc \in {"gp_entry", "gp_acc_wait"}
    \/ p = "gyro" /\ pc = "gp_entry" /\ ~MapEmpty(accBuffer)
    \/ p = "gyro" /\ pc = "gp_gyro_wait"
    \/ p = "gyro" /\ pc = "ci_after_gp" /\ publishInterIMU
    \/ p = "gyro" /\ pc = "ci_inter_loop"
    \/ p = "pose" /\ pc \in {"gp_pose_test", "gp_pose_wait"}

\* C15: the consumer reads a timeline only while it holds the timeline's
\* lock (so that no read of the consumer falls between the lock and the
\* unlock of that timeline's callback).
C15_ReadsUnderLock ==
    \A p \in Streams : ConsumerReads(p) => MutexOf(p).owner = "consumer"

\* C16: while the consumer sleeps in a wait loop of getPoseAndIMU it does
\* not hold the lock of the timeline it waits for, whether the call was made
\* by captureImage directly or from the loop that emits the intermediate
\* inertial events.
C16_SleepsUnlocked ==
    /\ pc = "gp_pose_sleep" => poseMutex.owner # "consumer"
    /\ pc \in {"gp_acc_sleep", "gp_gyro_sleep"} => imuMutex.owner # "consumer"

\* The consumer is inside the loop of captureImage that emits the
\* intermediate inertial events, between imuMutex_.lock() and unlock().
InInterLoop == pc \in {"ci_inter_loop", "ci_loop_after_gp"} \/ gp.caller = "inter"

\* C17: the pose timeline has a lock of its own, apart from the lock of the
\* inertial timelines: poseMutex_ is held only by the pose callback or by the
\* consumer in its pose block, and imuMutex_ only by an inertial callback or
\* by the consumer in its accel and gyro blocks and its intermediate-event
\* loop, so neither kind of insert waits on behalf of the other timeline.
C17_PoseLockApart ==
    /\ poseMutex.owner \in {"none", "pose", "consumer"}
    /\ poseMutex.owner = "consumer" => pc \in {"gp_pose_wait", "gp_pose_unlock"}
    /\ imuMutex.owner \in {"none", "gyro", "acc", "consumer"}
    /\ imuMutex.owner = "consumer" =>
           \/ pc \in {"gp_acc_wait", "gp_acc_unlock", "gp_gyro_wait", "gp_gyro_unlock"}
           \/ InInterLoop

\* C17's case: the pose callback has taken its lock and is about to insert
\* while the consumer holds the inertial lock.
C17_Witness ==
    /\ cbPc["pose"] = "locked"
    /\ imuMutex.owner = "consumer"
    /\ poseMutex.owner = "pose"

\* C17 as stated, gyro versus accel included: among the callbacks, the lock
\* that guards a stream's timeline is held by that stream's callback only.
C17_Original ==
    \A p \in Streams : MutexOf(p).owner \in Streams => MutexOf(p).owner = p

\* The consumer takes the step that leaves pc = at.
ConsumerLeaves(at) == pc = at /\ pc' # at

\* C18: an empty timeline makes the interpolation fail at once, whatever the
\* wait budget: with the gyro or the accel timeline empty the call returns
\* from its first test with the inertial reading empty and the pose null,
\* and with the pose timeline empty the pose block is passed over, without a
\* lock, a poll or a sleep, and the pose stays null.
C18_EmptyFailsAtOnce ==
    [][/\ ConsumerLeaves("gp_entry") /\ (MapEmpty(accBuffer) \/ MapEmpty(gyroBuffer))
          => /\ pc' \in {"ci_after_gp", "ci_loop_after_gp"}
             /\ gp'.imu.empty /\ gp'.pose.null /\ gp'.waitTry = 0
             /\ UNCHANGED lockVars
       /\ ConsumerLeaves("gp_pose_test") /\ MapEmpty(poseBuffer)
          => /\ pc' = "gp_acc_lock"
             /\ gp'.pose.null /\ gp'.poseConfidence = 0 /\ gp'.waitTry = 0
             /\ UNCHANGED lockVars]_vars

\* C18's case: a call with a positive wait budget has returned from its
\* first test because the gyro timeline is empty.
C18_Witness ==
    /\ pc = "ci_after_gp"
    /\ MapEmpty(gyroBuffer) /\ ~MapEmpty(accBuffer)
    /\ gp.maxWaitTimeMs > 0
    /\ gp.imu.empty /\ gp.pose.null

\* The consumer is in the 1 ms sleep of a wait loop, or about to take the
\* lock again after it.
Sleeping == pc \in {"gp_pose_sleep", "gp_acc_sleep", "gp_gyro_sleep"}

\* C19: a wait loop polls at most maxWaitTimeMs times, one sleep per poll,
\* and never sleeps when the budget is 0; a block that ends with its stream
\* still behind the target has used the whole budget and fails (null pose,
\* no inertial reading).
C19_BoundedPolls ==
    /\ gp.waitTry <= gp.maxWaitTimeMs
    /\ Sleeping => gp.maxWaitTimeMs > 0 /\ gp.waitTry >= 1
    /\ (PoseDone /\ Latest(poseBuffer) < gp.stamp) =>
           /\ gp.waitTry = gp.maxWaitTimeMs
           /\ gp.pose = NullPose /\ gp.poseConfidence = 0
    /\ (AccDone /\ Latest(accBuffer) < gp.stamp) =>
           gp.waitTry = gp.maxWaitTimeMs /\ gp.failed
    /\ (GyroDone /\ Latest(gyroBuffer) < gp.stamp) =>
           gp.waitTry = gp.maxWaitTimeMs /\ gp.failed

\* C19's case: the accel block has polled as often as the positive budget
\* allows, the accel stream is still behind the target, and the block fails.
C19_Witness ==
    /\ AccDone /\ Latest(accBuffer) < gp.stamp
    /\ gp.maxWaitTimeMs > 0 /\ gp.waitTry = gp.maxWaitTimeMs
    /\ gp.failed

\* C20: every insert stores the sample the callback carries, a sample whose
\* timestamp equals a stored one included (both are kept): the insert of a
\* callback leaves its timeline one sample larger.
C20_InsertStores ==
    [][\A p \in Streams :
           (cbPc[p] = "locked" /\ cbPc'[p] = "inserted") =>
               MapSize(BufferOf(p)') = MapSize(BufferOf(p)) + 1]_vars

\* C21: a record built from a complete frame set whose timestamp is beyond
\* host time by more than the tolerance is stamped with the host time read
\* at aggregation, any other with the frame set's timestamp unchanged, and
\* the target handed to getPoseAndIMU is that stamp in milliseconds; so the
\* stamp of a record is never beyond host time by more than the tolerance.
C21_ClockSanity ==
    /\ data.images =>
           data.stamp = IF seen.late THEN seen.host ELSE Rat(seen.minTs, 1000)
    /\ (pc # "idle" /\ gp.caller = "main") =>
           gp.stamp = ToMillis(IF seen.late THEN seen.host ELSE Rat(seen.minTs, 1000))

\* C21's case: a record with images was built from a frame set stamped
\* beyond the tolerance, and carries the host time.
C21_Witness ==
    /\ pc = "idle"
    /\ data.images /\ seen.late
    /\ data.stamp = seen.host
    /\ RatLess(data.stamp, Rat(seen.minTs, 1000))

\* The target lies within the stored timestamps of timeline m.
Covered(m, t) == ~MapEmpty(m) /\ Earliest(m) <= t /\ t <= Latest(m)

\* C22: once the timeline the consumer waits for holds a sample at or after
\* the target, the re-check that follows the sleep ends the wait loop (no
\* further poll is made, whatever is left of the budget), and the block
\* returns a value for its stream when the target is not before the earliest
\* stored sample.
C22_CatchUp ==
    /\ (pc = "gp_acc_wait" /\ Latest(accBuffer) >= gp.stamp) =>
           ~ENABLED GpAccWait /\ ENABLED GpAccCompute
    /\ (pc = "gp_gyro_wait" /\ Latest(gyroBuffer) >= gp.stamp) =>
           ~ENABLED GpGyroWait /\ ENABLED GpGyroCompute
    /\ (AccDone /\ Covered(accBuffer, gp.stamp)) => ~gp.failed
    /\ (GyroDone /\ Covered(gyroBuffer, gp.stamp)) => ~gp.failed

\* C22's case: the gyro block slept because its stream was behind, the gyro
\* callback inserted a sample at the target during the sleep, and the block
\* has produced a value.
C22_Witness ==
    /\ GyroDone /\ gp.waitTry >= 1
    /\ gp.stamp \in DOMAIN gyroBuffer /\ Latest(gyroBuffer) = gp.stamp
    /\ ~gp.failed

\* The gyro ticks stored between the previous target p and the current
\* target c of a capture
TicksBetween(p, c) == {t \in DOMAIN gyroBuffer : p < t /\ t <= c}

\* C23: in a capture with intermediate inertial emission, every event posted
\* has the timestamp of a gyro tick t with lastImuStamp_ < t <= imuStamp, and
\* when the loop is left every such tick at which the accel timeline allows
\* the interpolation has been posted.
C23_TicksBetween ==
    [][/\ events' # events =>
              \E t \in TicksBetween(lastImuStamp, ci.imuStamp) :
                  events' = Append(events, ToSeconds(t))
       /\ (InInterLoop /\ pc' = "idle") =>
              \A t \in TicksBetween(lastImuStamp, ci.imuStamp) :
                  Covered(accBuffer, t) =>
                      \E k \in 1..Len(events) : events[k] = ToSeconds(t)]_vars

\* C24: a step of the callback of stream p changes no timeline but that of
\* p and hands nothing to the syncer, a frame handed to the syncer changes no
\* timeline, and no step of the dispatch changes the warning latches or
\* lastImuStamp_.
C24_DispatchFrame ==
    [][/\ \A p \in Streams :
              cbPc'[p] # cbPc[p] =>
                  /\ \A q \in Streams \ {p} : BufferOf(q)' = BufferOf(q)
                  /\ forwarded' = forwarded
       /\ forwarded' # forwarded => UNCHANGED bufVars
       /\ ingestLeft' # ingestLeft \/ cbPc' # cbPc =>
              UNCHANGED <<latchVars, lastImuStamp>>]_vars

\* C24's case: a gyro sample and a depth frame were delivered, the gyro
\* timeline holds the sample, a frame went to the syncer, and the other
\* timelines are as empty as before.
C24_Witness ==
    /\ \A p \in Streams : cbPc[p] = "idle"
    /\ MapSize(gyroBuffer) = 1 /\ MapEmpty(accBuffer) /\ MapEmpty(poseBuffer)
    /\ "DEPTH" \in forwarded

\* C25: a frame of a stream that is neither inertial, pose nor image is a
\* no-op: it is stored in no timeline and is not handed to the syncer.
C25_UnknownDropped == "GPIO" \notin forwarded

\* C26: in strict and in lenient mode alike, the pose block returns a
\* non-null pose exactly when the target lies within the stored pose
\* timestamps, earliest and latest included, and a null pose with confidence
\* 0 otherwise: the pose is never extrapolated.
C26_PoseWithin ==
    PoseDone =>
        IF Covered(poseBuffer, gp.stamp)
        THEN ~gp.pose.null
        ELSE gp.pose = NullPose /\ gp.poseConfidence = 0

\* C26's case: in lenient mode the target is before the earliest pose (and
\* in another run after the latest one), and the pose is null.
C26_Witness ==
    /\ PoseDone /\ ~globalTimeSync
    /\ gp.stamp < Earliest(poseBuffer)
    /\ gp.pose = NullPose

\* With odometry not provided the pose timeline is empty and no pose has
\* been written to the info object.
Gated == ~odometryProvided => MapEmpty(poseBuffer) /\ ~odom.set

\* C27: while odometryProvided_ is off the pose frames delivered are
\* discarded, the pose timeline stays empty and no capture writes a pose; a
\* pose is written to the info object only with the option on, an info
\* object given and a non-null interpolated pose.
C27_OdometryGated ==
    [][/\ Gated /\ Gated'
       /\ (odom'.set /\ odom' # odom) =>
              /\ odometryProvided /\ ci.info /\ ~gp.pose.null
              /\ odom'.pose = gp.pose]_vars

\* C27's case: with the option off, the one frame delivered was a pose frame
\* (the inertial timelines are as they were), it was discarded, and the
\* capture returned its record without a pose.
C27_Witness ==
    /\ ~odometryProvided /\ env.infos = BOOLEAN
    /\ ingestLeft = 0 /\ \A p \in Streams : cbPc[p] = "idle"
    /\ DOMAIN gyroBuffer = {1, MaxTime} /\ DOMAIN accBuffer = {1, MaxTime}
    /\ MapEmpty(poseBuffer)
    /\ pc = "idle" /\ capturesLeft = 0 /\ data.images /\ ~odom.set

\* A capture that no callback interleaves with: the timelines are those the
\* call found.
Quiet == env = InterpEnv

\* The pose the pose timeline yields for the target, and the inertial
\* reading the inertial timelines yield for it
PoseFor(stamp, wait) ==
    IF MapEmpty(poseBuffer) THEN NullPose ELSE PoseResult(poseBuffer, stamp, wait).pose

ImuFor(stamp, wait) ==
    IF MapEmpty(accBuffer) \/ MapEmpty(gyroBuffer) THEN EmptyIMU
    ELSE LET a == VecResult(accBuffer, stamp, wait, globalTimeSync, FALSE)
             g == VecResult(gyroBuffer, stamp, wait, globalTimeSync, FALSE)
         IN  IF a.ok /\ g.ok THEN MakeIMU(g.val, a.val) ELSE EmptyIMU

\* C28: the pose getPoseAndIMU returns is the one the pose timeline yields
\* for the target, whatever the gyro and accel timelines hold, and the
\* inertial reading is the one the inertial timelines yield, whatever the
\* pose timeline holds.
C28_Independent ==
    (Quiet /\ pc = "ci_after_gp") =>
        /\ gp.pose = PoseFor(gp.stamp, gp.maxWaitTimeMs)
        /\ gp.imu = ImuFor(gp.stamp, gp.maxWaitTimeMs)

\* getPoseAndIMU has returned, to captureImage or to its inter-IMU loop.
Returned == pc \in {"ci_after_gp", "ci_loop_after_gp"}

\* C29: the inertial reading is all-or-nothing: when getPoseAndIMU returns, the
\* reading is either empty or built from the accel value and the gyro value
\* that the two blocks of this call both obtained at the call's one target
\* timestamp; when a block found its value unavailable (accel obtained and
\* gyro unavailable, or accel unavailable), the reading is empty.
C29_AllOrNothing ==
    /\ Returned =>
          /\ gp.imu = EmptyIMU \/ (~gp.failed /\ gp.imu = MakeIMU(gp.gyro, gp.acc))
          /\ gp.failed => gp.imu = EmptyIMU
    /\ (pc = "gp_gyro_unlock" /\ ~gp.failed /\ Quiet) =>
          /\ VecResult(accBuffer, gp.stamp, gp.maxWaitTimeMs, globalTimeSync, FALSE).ok
          /\ VecResult(gyroBuffer, gp.stamp, gp.maxWaitTimeMs, globalTimeSync, FALSE).ok
          /\ gp.acc = VecResult(accBuffer, gp.stamp, gp.maxWaitTimeMs, globalTimeSync, FALSE).val
          /\ gp.gyro = VecResult(gyroBuffer, gp.stamp, gp.maxWaitTimeMs, globalTimeSync, FALSE).val

\* The call returns with the accel value obtained and the gyro value
\* unavailable, and its reading is empty.
C29_Witness ==
    /\ Returned /\ gp.failed /\ gp.acc # ZeroVec
    /\ gp.imu = EmptyIMU

\* captureImage is at work on a frame set of the expected size in which it
\* found no image pair.
Imageless == pc # "idle" /\ seen.size = ExpectedSize /\ ~data.images

\* C30: a record returned without images carries no inertial reading and
\* advances no capture state: when a frame set of the expected size does not
\* contain the expected image pair, no step of captureImage puts anything in
\* the record, emits an intermediate inertial event or changes lastImuStamp_.
C30_ImagelessEmpty ==
    [][(Imageless /\ pc' # pc) =>
          /\ data' = EmptyData
          /\ events' = events
          /\ lastImuStamp' = lastImuStamp]_vars

\* C31: inertial data leaves captureImage by one channel per configuration.
\* With publishInterIMU_ off no step posts an inertial event, and the step
\* that ends captureImage after getPoseAndIMU leaves in the record the reading
\* that call produced (empty when none was available).  With it on no step
\* leaves a reading in the record, and no step posts an event while
\* lastImuStamp_ is 0 (the first capture cycle).
C31_OneChannel ==
    [][/\ ~publishInterIMU =>
             /\ events' = events
             /\ (pc = "ci_after_gp" /\ pc' = "idle") => data'.imu = gp.imu
       /\ publishInterIMU =>
             /\ data'.imu = EmptyIMU
             /\ lastImuStamp = 0 => events' = events]_vars

\* With publishInterIMU_ on, a capture cycle has posted events and returned a
\* record without a reading.
C31_Witness ==
    /\ publishInterIMU /\ pc = "idle"
    /\ events # << >>
    /\ data.images /\ data.imu = EmptyIMU

\* C32: over a session the timestamps of the posted intermediate inertial
\* events are strictly increasing: no gyro tick is emitted twice, within one
\* capture cycle or across two cycles.
C32_EventsIncrease ==
    \A i \in 1..Len(events) : \A j \in 1..Len(events) :
        i < j => RatLess(events[i], events[j])

\* Two capture cycles have each posted an event.
C32_Witness ==
    /\ Len(events) >= 2
    /\ pc = "idle" /\ capturesLeft = 0

\* How many times the consumer holds a lock
HeldByConsumer(m) == IF m.owner = "consumer" THEN m.count ELSE 0

\* C33: lock balance.  Wherever getPoseAndIMU returns (the timelines empty,
\* a value unavailable after the wait, a strict-mode failure, success) the
\* consumer holds the pose lock and the inertial lock as many times as when
\* the call was made: not at all when captureImage made the call, the
\* inertial lock once when the intermediate-event loop made it.  When
\* captureImage has returned the consumer holds no lock.
C33_LockBalance ==
    /\ pc \in {"idle", "ci_after_gp"} =>
          HeldByConsumer(poseMutex) = 0 /\ HeldByConsumer(imuMutex) = 0
    /\ pc \in {"ci_loop_after_gp", "ci_inter_loop"} =>
          HeldByConsumer(poseMutex) = 0 /\ HeldByConsumer(imuMutex) = 1
    /\ (pc = "idle" /\ \A p \in Streams : cbPc[p] = "idle") =>
          \A p \in Streams : CanLock(MutexOf(p), p)

\* A call made by the intermediate-event loop has returned without a value,
\* and the consumer holds the inertial lock once, as before the call.
C33_Witness ==
    /\ pc = "ci_loop_after_gp" /\ gp.failed
    /\ HeldByConsumer(imuMutex) = 1

\* C34: after any sequence of setDualMode and setOdomProvided calls, dual
\* mode enabled implies odometry provided; a call that leaves dual mode on
\* leaves odometry on, and a call that turns odometry off leaves dual mode off.
C34_DualNeedsOdom ==
    [][/\ dualMode => odometryProvided
       /\ dualMode' => odometryProvided'
       /\ (odometryProvided /\ ~odometryProvided') => ~dualMode']_vars

\* setDualMode(true, ...) was called on the constructed camera: dual mode and
\* odometry are both on.
C34_Witness == dualMode /\ odometryProvided /\ phase = "config"

\* The wait loop of a block is over and the block is about to read its two
\* iterators.
AtCompute(p) ==
    /\ pc = (IF p = "pose" THEN "gp_pose_wait"
             ELSE IF p = "acc" THEN "gp_acc_wait" ELSE "gp_gyro_wait")
    /\ ~WaitMore(BufferOf(p))

\* C35: the interpolation ratio is never computed with a zero denominator:
\* whenever the block of pose, accel or gyro takes its linear-interpolation
\* branch, iterA and iterB are distinct entries and iterA->first is less than
\* iterB->first, whatever the timeline holds and whatever the target.
C35_DistinctBracket ==
    \A p \in Streams :
        (AtCompute(p) /\ TakesLerp(BufferOf(p), gp.stamp)) =>
            /\ IterA(BufferOf(p), gp.stamp) # IterB(BufferOf(p), gp.stamp)
            /\ KeyAt(BufferOf(p), IterA(BufferOf(p), gp.stamp))
                 < KeyAt(BufferOf(p), IterB(BufferOf(p), gp.stamp))

\* The pose block takes its linear-interpolation branch for a target strictly
\* between two stored samples.
C35_Witness ==
    /\ AtCompute("pose") /\ TakesLerp(poseBuffer, gp.stamp)
    /\ gp.stamp \notin DOMAIN poseBuffer

\* The consumer is at the test of one of its wait loops, the lock held.
AtWaitTest(p) ==
    pc = (IF p = "pose" THEN "gp_pose_wait"
          ELSE IF p = "acc" THEN "gp_acc_wait" ELSE "gp_gyro_wait")

\* C36: a timeline that has become non-empty never becomes empty again, under
\* any interleaving of the callbacks and the consumer, so the latest sample a
\* wait loop reads after the consumer has the lock again is a stored sample.
C36_StaysNonEmpty ==
    [][\A p \in Streams :
          /\ ~MapEmpty(BufferOf(p)) => ~MapEmpty(BufferOf(p)')
          /\ AtWaitTest(p) => ~MapEmpty(BufferOf(p))]_vars

\* The consumer has the inertial lock again after a poll of its gyro wait
\* loop during which a callback stored a sample and evicted the oldest one.
C36_Witness ==
    /\ AtWaitTest("gyro") /\ gp.waitTry > 0
    /\ ingestLeft = 0
    /\ MapSize(gyroBuffer) = Capacity /\ 1 \notin DOMAIN gyroBuffer
    /\ 1 \notin DOMAIN accBuffer

====
